---- MODULE Spec2Model ----
(***************************************************************************)
(* A model of the listing reconciliation core of car-scraping: the         *)
(* cross-run merger (data/merge_results.py), the intra-run deduplicators   *)
(* and config filters of the three scrapers and of run_all.py, the URL     *)
(* canonicalizers (utils/url.py, run_all.py), the pagination loop of       *)
(* scrape() with the retry policy of make_session and main()'s write_csv,  *)
(* the two fetchers and the browser driver of scrape_carscom.py, and the   *)
(* site loop and combined output of run_all.main.                          *)
(*                                                                         *)
(* Python strings that the code compares, splits or joins are modelled as  *)
(* sequences of one-character strings; strings the code only uses as       *)
(* opaque keys are TLA+ strings. Python's None is the value None.          *)
(***************************************************************************)
EXTENDS Integers, Sequences, FiniteSets, TLC

None == "None"
\* None, or an absent component, where a character sequence may stand
Absent == <<"None">>

(***************************************************************************)
(* Bounds of the model.                                                    *)
(***************************************************************************)
\* rows read by one merge_csv_files call, over all input files
MaxMergeRows == 3

(***************************************************************************)
(* Python string primitives.                                               *)
(***************************************************************************)
\* ord(c) for the characters the model compares
Ord(c) ==
    CASE c = "0" -> 48 [] c = "1" -> 49 [] c = "2" -> 50
      [] c = "a" -> 97 [] c = "b" -> 98 [] c = "c" -> 99 [] c = "d" -> 100

\* s < t on Python str: lexicographic by code point, a proper prefix is smaller
RECURSIVE StrLess(_, _)
StrLess(s, t) ==
    IF t = <<>> THEN FALSE
    ELSE IF s = <<>> THEN TRUE
    ELSE IF Ord(Head(s)) # Ord(Head(t)) THEN Ord(Head(s)) < Ord(Head(t))
    ELSE StrLess(Tail(s), Tail(t))

\* sorted(S) for a set of strings: list.sort() with str comparison
RECURSIVE SortStrings(_)
SortStrings(S) ==
    IF S = {} THEN <<>>
    ELSE LET m == CHOOSE x \in S : \A y \in S \ {x} : StrLess(x, y)
         IN  <<m>> \o SortStrings(S \ {m})

\* bool(s) of a str held as a character sequence
StrTruthy(s) == s # <<>>

\* bool(k) of a str-or-None value held as an opaque key
KeyTruthy(k) == k \notin {None, ""}

(***************************************************************************)
(* data/merge_results.py: merge_csv_files                                  *)
(***************************************************************************)
\* Entries of input_dir that glob(pattern) returns. A file name
\* "<stem>_results.csv" is modelled by its stem; "d" is a directory.
OutputStem == <<"c">>
DirEntryNames == {<<"a">>, <<"b">>, <<"c">>, <<"d">>}
IsFile(name) == name # <<"d">>

\* The directory listings the merge is run on
DirListings ==
    { {}, {<<"a">>}, {<<"a">>, <<"b">>}, {<<"a">>, <<"b">>, <<"c">>},
      {<<"b">>, <<"d">>} }

\* first_seen values of a CSV cell: "" or an ISO-8601 seconds-precision
\* timestamp; the model keeps the two digits in which the timestamps differ.
Timestamps == {<<"0", "1">>, <<"1", "0">>, <<"1", "1">>}
FirstSeenValues == {<<>>} \cup Timestamps

\* chronological position of a timestamp
TsValue(ts) == (Ord(ts[1]) - 48) * 10 + (Ord(ts[2]) - 48)

\* A CSV row as csv.DictReader yields it; price stands for the fields the
\* merge copies without reading (source, title, price, mileage, dealer,
\* location).
MergeUrls == {"", "u1", "u2"}
CsvRows ==
    [url : {"u1"}, first_seen : FirstSeenValues, price : {"100", "200"}]
    \cup [url : {"u2"}, first_seen : {<<>>, <<"1", "0">>}, price : {"100"}]
    \cup [url : {""}, first_seen : {<<>>}, price : {"100", "200"}]

VARIABLES
    dirListing,   \* what glob(os.path.join(input_dir, pattern)) matches
    paths,        \* the sorted list of input paths
    fileIdx,      \* index in paths of the file being read
    merged,       \* the dict merged: url -> row
    mergedOrder,  \* insertion order of the keys of merged
    mergeLog,     \* history: the rows read so far, in processing order
    mergeResult,  \* the list merge_csv_files returned (None before)
    outputFile,   \* the rows written to output_file (None: not written)
    mergePc       \* "idle", "reading", "done", "raised"

mergeVars == <<dirListing, paths, fileIdx, merged, mergedOrder, mergeLog,
               mergeResult, outputFile, mergePc>>

VARIABLES
    ddFn,     \* which deduplication step runs
    ddIn,     \* its input list
    ddIdx,    \* index of the next input element of its loop
    ddSeen,   \* the set seen / seen_urls
    ddOut,    \* the list out / results
    ddPc      \* "idle", "loop", "done"

dedupeVars == <<ddFn, ddIn, ddIdx, ddSeen, ddOut, ddPc>>

VARIABLES
    urlFn,     \* which url normalisation runs
    urlParts,  \* history: the components the input url was written from
    urlIn,     \* the url or href handed to it
    urlOut1,   \* canonical_url(url), or the url field of the record
    urlOut2,   \* canonical_url of urlOut1, or the url column after as_df
    urlPc      \* "idle", "input", "once", "twice"

urlVars == <<urlFn, urlParts, urlIn, urlOut1, urlOut2, urlPc>>

VARIABLES
    ftFn,    \* which config filter runs
    ftIn,    \* its input rows
    ftIdx,   \* index of the next row of its loop
    ftOut,   \* the list filtered
    ftPc     \* "idle", "loop", "done"

filterVars == <<ftFn, ftIn, ftIdx, ftOut, ftPc>>

VARIABLES
    scSrc,        \* the scraper that runs: "craigslist", "carscom", "cargurus"
    scMaxPages,   \* MAX_PAGES of the run
    scUseSel,     \* USE_SELENIUM (cars.com)
    scAutoSel,    \* AUTO_SELENIUM_ON_FAIL (cars.com)
    scCat,        \* index of the category of the outer loop
    scPage,       \* page of the inner loop
    scRetries,    \* what is left of Retry.total for the GET in progress
    scAttempts,   \* history: GET attempts issued for the page in progress
    scResp,       \* what session.get gave for the page
    scDriver,     \* whether the selenium driver exists (cars.com)
    scDriversMade, \* history: the drivers make_driver() has returned
    scDriverQuit, \* history: driver.quit() was called
    scFetch,      \* history: the fetches of the cars.com page last handled
    scRows,       \* all_rows
    scLog,        \* history: one entry per page the loop has finished
    scClock,      \* utcnow(), in seconds
    scResult,     \* what scrape() returned
    scPersisted,  \* what main() gave to write_csv: header and rows
    scPc          \* "idle", "get", "page", "return", "returned", "done",
                  \* "raised" (a request or write error left the program),
                  \* "crashed" (an exception of parse_listings left scrape())

scrapeVars == <<scSrc, scMaxPages, scUseSel, scAutoSel, scCat, scPage, scRetries,
                scAttempts, scResp, scDriver, scDriversMade, scDriverQuit,
                scFetch, scRows, scLog, scClock, scResult, scPersisted, scPc>>

VARIABLES
    fePage,      \* the page a cars.com fetcher is asked for
    feRequests,  \* what fetch_html_requests returned for it (NoResp: not called)
    feSelenium,  \* what fetch_html_selenium returned for it (NoResp: not called)
    fePc         \* "idle", "fetch"

fetchVars == <<fePage, feRequests, feSelenium, fePc>>

VARIABLES
    raSites,     \* args.sites: the selected site names
    raIdx,       \* index of the site of the loop of main()
    raDfs,       \* dfs: the non-empty frames of the sites, in order
    raLog,       \* history: per site handled, what its scrape() did
    raClock,     \* utcnow(), in seconds
    raCombined,  \* the rows written to combined-<ts>.csv
    raPc         \* "idle", "sites", "combine", "done" (combined written),
                 \* "nodata" (nothing scraped), "raised"

runAllVars == <<raSites, raIdx, raDfs, raLog, raClock, raCombined, raPc>>

vars == <<mergeVars, dedupeVars, urlVars, filterVars, scrapeVars, fetchVars,
          runAllVars>>

\* the state of the components an operation does not touch
OthersThanMerge == <<dedupeVars, urlVars, filterVars, scrapeVars, fetchVars, runAllVars>>
OthersThanDedupe == <<mergeVars, urlVars, filterVars, scrapeVars, fetchVars, runAllVars>>
OthersThanUrl == <<mergeVars, dedupeVars, filterVars, scrapeVars, fetchVars, runAllVars>>
OthersThanFilter == <<mergeVars, dedupeVars, urlVars, scrapeVars, fetchVars, runAllVars>>
OthersThanScrape == <<mergeVars, dedupeVars, urlVars, filterVars, fetchVars,
                      runAllVars>>
OthersThanFetch == <<mergeVars, dedupeVars, urlVars, filterVars, scrapeVars,
                     runAllVars>>
OthersThanRunAll == <<mergeVars, dedupeVars, urlVars, filterVars, scrapeVars,
                      fetchVars>>

MergeIdle ==
    /\ dirListing = {} /\ paths = <<>> /\ fileIdx = 0 /\ merged = <<>>
    /\ mergedOrder = <<>> /\ mergeLog = <<>> /\ mergeResult = None
    /\ outputFile = None /\ mergePc = "idle"

DedupeIdle ==
    /\ ddFn = None /\ ddIn = <<>> /\ ddIdx = 0 /\ ddSeen = {} /\ ddOut = <<>>
    /\ ddPc = "idle"

UrlIdle ==
    /\ urlFn = None /\ urlParts = <<>> /\ urlIn = <<>> /\ urlOut1 = <<>>
    /\ urlOut2 = <<>> /\ urlPc = "idle"

FilterIdle ==
    /\ ftFn = None /\ ftIn = <<>> /\ ftIdx = 0 /\ ftOut = <<>> /\ ftPc = "idle"

\* the fetches of a cars.com page: calls of fetch_html_requests, of
\* fetch_html_selenium and of make_driver
NoFetch == [gets |-> 0, browser |-> 0, tries |-> 0]

\* no response: session.get has not returned
NoResp == [status |-> None, items |-> <<>>, bot |-> FALSE]

ScrapeIdle ==
    /\ scSrc = None /\ scMaxPages = 0 /\ scUseSel = FALSE /\ scAutoSel = FALSE /\ scCat = 0
    /\ scPage = 0 /\ scRetries = 0 /\ scAttempts = 0 /\ scResp = NoResp
    /\ scDriver = FALSE /\ scRows = <<>> /\ scLog = <<>> /\ scClock = 0
    /\ scResult = <<>> /\ scPersisted = <<>> /\ scPc = "idle"
    /\ scDriversMade = 0 /\ scDriverQuit = FALSE /\ scFetch = NoFetch

FetchIdle ==
    /\ fePage = NoResp /\ feRequests = NoResp /\ feSelenium = NoResp
    /\ fePc = "idle"

RunAllIdle ==
    /\ raSites = {} /\ raIdx = 0 /\ raDfs = <<>> /\ raLog = <<>> /\ raClock = 0
    /\ raCombined = <<>> /\ raPc = "idle"

\* mutant: the output file is not taken out of the matched files
InputPathsWithOutput(listing) ==
    SortStrings({p \in listing : IsFile(p)})

\* lines 31-36: the matched files other than output_file, sorted
InputPaths(listing) ==
    SortStrings({p \in listing : IsFile(p) /\ p # OutputStem})

EmptyDict == [u \in {} |-> None]

DictPut(d, k, v) == [x \in DOMAIN d \cup {k} |-> IF x = k THEN v ELSE d[x]]

\* mutant: the later first_seen replaces the retained record
MergeReplacesLatest(new_fs, old_fs) ==
    StrTruthy(new_fs) /\ (~StrTruthy(old_fs) \/ StrLess(old_fs, new_fs))

\* mutant: an observation of the same first_seen replaces the retained record
MergeReplacesOrEqual(new_fs, old_fs) ==
    StrTruthy(new_fs) /\ (~StrTruthy(old_fs) \/ ~StrLess(old_fs, new_fs))

\* line 52: whether a new observation replaces the retained record
MergeReplaces(new_fs, old_fs) ==
    StrTruthy(new_fs) /\ (~StrTruthy(old_fs) \/ StrLess(new_fs, old_fs))

\* mutant: a url that is not yet in merged is never stored
MergeRowNoInsert(m, row) ==
    IF row.url \in DOMAIN m /\ MergeReplaces(row.first_seen, m[row.url].first_seen)
    THEN DictPut(m, row.url, row)
    ELSE m

\* mutant: the row read is stored whatever merged holds for its url
MergeRowOverwrite(m, row) == DictPut(m, row.url, row)

\* lines 48-55: merged once a row with a url has been read
MergeRow(m, row) ==
    IF row.url \in DOMAIN m
    THEN IF MergeReplaces(row.first_seen, m[row.url].first_seen)
         THEN DictPut(m, row.url, row)
         ELSE m
    ELSE DictPut(m, row.url, row)

\* lines 44-46: rows without a url are skipped
MergeSkipsRow(row) == ~KeyTruthy(row.url)

\* mutant: a replaced key moves to the end, as after del merged[url]
MergeOrderMoveToEnd(order, m, m2, url) ==
    IF url \in DOMAIN m2 \ DOMAIN m THEN Append(order, url)
    ELSE IF url \in DOMAIN m /\ m2[url] # m[url]
    THEN Append(SelectSeq(order, LAMBDA k : k # url), url)
    ELSE order

\* lines 53 and 55: the insertion order of the keys of merged after
\* merged[url] = data took the dict from m to m2; assigning to a key that
\* is present keeps its position
MergeOrder(order, m, m2, url) ==
    IF url \in DOMAIN m2 \ DOMAIN m THEN Append(order, url) ELSE order

MergeInit ==
    /\ dirListing \in DirListings
    /\ paths = InputPaths(dirListing)
    /\ fileIdx = 1
    /\ merged = EmptyDict
    /\ mergedOrder = <<>>
    /\ mergeLog = <<>>
    /\ mergeResult = None
    /\ outputFile = None
    /\ mergePc = "reading"
    /\ DedupeIdle /\ UrlIdle /\ FilterIdle /\ ScrapeIdle
    /\ FetchIdle /\ RunAllIdle

\* lines 43-55: one iteration of "for row in reader"
MergeReadRow ==
    /\ mergePc = "reading"
    /\ fileIdx <= Len(paths)
    /\ Len(mergeLog) < MaxMergeRows
    /\ \E row \in CsvRows :
        /\ mergeLog' = Append(mergeLog, [path |-> paths[fileIdx], row |-> row])
        /\ IF MergeSkipsRow(row)
           THEN UNCHANGED <<merged, mergedOrder>>
           ELSE /\ merged' = MergeRow(merged, row)
                /\ mergedOrder' = MergeOrder(mergedOrder, merged, merged', row.url)
    /\ UNCHANGED <<dirListing, paths, fileIdx, mergeResult, outputFile, mergePc>>
    /\ UNCHANGED OthersThanMerge

\* lines 40-42: the reader is exhausted, the next path is opened
MergeNextFile ==
    /\ mergePc = "reading"
    /\ fileIdx <= Len(paths)
    /\ fileIdx' = fileIdx + 1
    /\ UNCHANGED <<dirListing, paths, merged, mergedOrder, mergeLog,
                   mergeResult, outputFile, mergePc>>
    /\ UNCHANGED OthersThanMerge

\* line 41: open(path) or the read of the file raises (the file was removed
\* after glob, may not be read, or is not UTF-8); nothing catches it
MergeOpenRaises ==
    /\ mergePc = "reading"
    /\ fileIdx <= Len(paths)
    /\ mergePc' = "raised"
    /\ UNCHANGED <<dirListing, paths, fileIdx, merged, mergedOrder, mergeLog,
                   mergeResult, outputFile>>
    /\ UNCHANGED OthersThanMerge

\* line 57: list(merged.values()), in insertion order
MergedRows(m, order) == [i \in 1..Len(order) |-> m[order[i]]]

\* lines 57-70: return [] without writing, or write the rows and return them
MergeFinish ==
    /\ mergePc = "reading"
    /\ fileIdx > Len(paths)
    /\ LET merged_rows == MergedRows(merged, mergedOrder)
       IN  /\ mergeResult' = merged_rows
           /\ outputFile' = IF merged_rows = <<>> THEN outputFile ELSE merged_rows
    /\ mergePc' = "done"
    /\ UNCHANGED <<dirListing, paths, fileIdx, merged, mergedOrder, mergeLog>>
    /\ UNCHANGED OthersThanMerge

MergeNext == MergeReadRow \/ MergeNextFile \/ MergeOpenRaises \/ MergeFinish

SpecMerge == MergeInit /\ [][MergeNext]_vars

(***************************************************************************)
(* Claims about merge_csv_files (checked under SpecMerge).                 *)
(***************************************************************************)
InputRows == {mergeLog[i].row : i \in 1..Len(mergeLog)}
InputRowsOf(u) == {r \in InputRows : r.url = u}
InputUrls == {r.url : r \in InputRows} \ {""}
DatedRowsOf(u) == {r \in InputRowsOf(u) : r.first_seen # <<>>}
ResultIdxOf(u) == {i \in 1..Len(mergeResult) : mergeResult[i].url = u}
UrlLessIdx == {i \in 1..Len(mergeLog) : mergeLog[i].row.url = ""}

\* C1: once the merge has returned, for every non-empty URL that some input
\* row carries with a non-empty first_seen, the merged row of that URL is an
\* input row of that URL (all its fields together) whose first_seen is the
\* chronologically earliest of the non-empty first_seen values of that URL.
C1_EarliestWins ==
    mergePc = "done" =>
        \A u \in InputUrls :
            DatedRowsOf(u) # {} =>
                \E i \in ResultIdxOf(u) :
                    /\ ResultIdxOf(u) = {i}
                    /\ mergeResult[i] \in DatedRowsOf(u)
                    /\ \A r \in DatedRowsOf(u) :
                           TsValue(mergeResult[i].first_seen) <= TsValue(r.first_seen)

\* C1 witness: file a holds {u1, later, price 100}, file b holds
\* {u1, earlier, price 200}; the merge returned the row of file b.
C1_Witness ==
    /\ mergePc = "done"
    /\ \E i, j \in 1..Len(mergeLog) :
         /\ i < j
         /\ mergeLog[i].path = <<"a">> /\ mergeLog[j].path = <<"b">>
         /\ mergeLog[i].row = [url |-> "u1", first_seen |-> <<"1", "1">>, price |-> "100"]
         /\ mergeLog[j].row = [url |-> "u1", first_seen |-> <<"1", "0">>, price |-> "200"]
         /\ InputRowsOf("u1") = {mergeLog[i].row, mergeLog[j].row}
    /\ mergeResult = <<[url |-> "u1", first_seen |-> <<"1", "0">>, price |-> "200"]>>

\* C2 (as claimed): the merged output has one row per distinct non-empty URL
\* plus one row per URL-less input row.
C2_UrlLessPassThrough ==
    mergePc = "done" =>
        Len(mergeResult) = Cardinality(InputUrls) + Cardinality(UrlLessIdx)

\* C3: the returned list holds exactly one row for each distinct non-empty
\* input URL and no row of another URL, and a non-empty list is what was
\* written to the output file.
C3_OneRowPerUrl ==
    mergePc = "done" =>
        /\ \A u \in InputUrls : Cardinality(ResultIdxOf(u)) = 1
        /\ \A i \in 1..Len(mergeResult) :
               mergeResult[i].url # "" => mergeResult[i].url \in InputUrls
        /\ InputUrls # {} => outputFile = mergeResult

\* C3 witness: file a holds u1 and u2, file b holds u2 again; 2 merged rows.
C3_Witness ==
    /\ mergePc = "done"
    /\ Len(mergeLog) = 3
    /\ mergeLog[1].path = <<"a">> /\ mergeLog[1].row.url = "u1"
    /\ mergeLog[2].path = <<"a">> /\ mergeLog[2].row.url = "u2"
    /\ mergeLog[3].path = <<"b">> /\ mergeLog[3].row.url = "u2"
    /\ Len(mergeResult) = 2
    /\ outputFile = mergeResult

(***************************************************************************)
(* Intra-run deduplication: dedupe_rows of scrape_craigslist.py and        *)
(* scrape_carscom.py, the seen_urls check of their parse_listings, and     *)
(* as_df followed by dedupe of run_all.py.                                 *)
(***************************************************************************)
\* rows of one deduplication input
MaxDedupeRows == 3

DedupeFns ==
    {"craigslist.dedupe_rows", "carscom.dedupe_rows",
     "craigslist.parse_listings", "carscom.parse_listings", "run_all.dedupe"}

\* What parse_listings has extracted for one item or card: the url after
\* canonical_url (None when the markup has none) and the title.
ParsedItems == [url : {None, "u1", "u2"}, title : {None, "A", "B"}]

\* line 115 / 259: "if not url and not title"
IsInvalidItem(r) == ~KeyTruthy(r.url) /\ ~KeyTruthy(r.title)

\* The records parse_listings returns: what dedupe_rows and run_all receive
ListingRecords == {r \in ParsedItems : ~IsInvalidItem(r)}

SeqsUpTo(S, n) == UNION {[1..k -> S] : k \in 0..n}

\* mutant: the last occurrence replaces the kept record
DedupeRowsStepKeepLast(seen, out, r) ==
    IF ~KeyTruthy(r.url) THEN <<seen, Append(out, r)>>
    ELSE IF r.url \in seen
         THEN <<seen, [i \in 1..Len(out) |-> IF out[i].url = r.url THEN r ELSE out[i]]>>
    ELSE <<seen \cup {r.url}, Append(out, r)>>

\* scrape_craigslist.dedupe_rows, one iteration: the new <<seen, out>>
CraigslistDedupeRowsStep(seen, out, r) ==
    IF ~KeyTruthy(r.url) THEN <<seen, Append(out, r)>>
    ELSE IF r.url \in seen THEN <<seen, out>>
    ELSE <<seen \cup {r.url}, Append(out, r)>>

\* scrape_carscom.dedupe_rows, one iteration: the new <<seen, out>>
CarscomDedupeRowsStep(seen, out, r) ==
    IF ~KeyTruthy(r.url) THEN <<seen, Append(out, r)>>
    ELSE IF r.url \in seen THEN <<seen, out>>
    ELSE <<seen \cup {r.url}, Append(out, r)>>

\* parse_listings of craigslist (lines 115-149, 168-187) and of cars.com
\* (lines 259-283), one item: the invalid-record guard, then seen_urls
ParseListingsStep(seen, out, r) ==
    IF IsInvalidItem(r) THEN <<seen, out>>
    ELSE IF KeyTruthy(r.url) /\ r.url \in seen THEN <<seen, out>>
    ELSE <<IF KeyTruthy(r.url) THEN seen \cup {r.url} ELSE seen, Append(out, r)>>

\* run_all.canonical_url as as_df maps it over the url column: None comes
\* back as the empty bytes value; u1 and u2 stand for urls that are already
\* canonical and come back unchanged.
EmptyBytes == "b''"
RunAllCanonicalKey(u) == IF u = None THEN EmptyBytes ELSE u

\* run_all.as_df, the url column
AsDfUrl(rows) ==
    [i \in 1..Len(rows) |-> [rows[i] EXCEPT !.url = RunAllCanonicalKey(rows[i].url)]]

\* the elements of seq at the indices in I that are >= i, in order
RECURSIVE SelectIdx(_, _, _)
SelectIdx(seq, i, I) ==
    IF i > Len(seq) THEN <<>>
    ELSE (IF i \in I THEN <<seq[i]>> ELSE <<>>) \o SelectIdx(seq, i + 1, I)

\* run_all.dedupe: DataFrame.drop_duplicates("url", keep="first") keeps the
\* first row of every url value; missing and equal values are one value.
RunAllDedupe(df) ==
    SelectIdx(df, 1, {i \in 1..Len(df) : \A j \in 1..(i - 1) : df[j].url # df[i].url})

DedupeInit ==
    /\ ddFn \in DedupeFns
    /\ ddIn \in SeqsUpTo(IF ddFn \in {"craigslist.parse_listings", "carscom.parse_listings"}
                          THEN ParsedItems ELSE ListingRecords, MaxDedupeRows)
    /\ ddIdx = 1
    /\ ddSeen = {}
    /\ ddOut = <<>>
    /\ ddPc = "loop"
    /\ MergeIdle /\ UrlIdle /\ FilterIdle /\ ScrapeIdle
    /\ FetchIdle /\ RunAllIdle

\* one iteration of "for r in rows" of dedupe_rows
DedupeRowsIter ==
    /\ ddPc = "loop"
    /\ ddFn \in {"craigslist.dedupe_rows", "carscom.dedupe_rows"}
    /\ ddIdx <= Len(ddIn)
    /\ LET res == IF ddFn = "craigslist.dedupe_rows"
                  THEN CraigslistDedupeRowsStep(ddSeen, ddOut, ddIn[ddIdx])
                  ELSE CarscomDedupeRowsStep(ddSeen, ddOut, ddIn[ddIdx])
       IN  ddSeen' = res[1] /\ ddOut' = res[2]
    /\ ddIdx' = ddIdx + 1
    /\ UNCHANGED <<ddFn, ddIn, ddPc>>
    /\ UNCHANGED OthersThanDedupe

\* one iteration of the item loop of parse_listings
ParseListingsIter ==
    /\ ddPc = "loop"
    /\ ddFn \in {"craigslist.parse_listings", "carscom.parse_listings"}
    /\ ddIdx <= Len(ddIn)
    /\ LET res == ParseListingsStep(ddSeen, ddOut, ddIn[ddIdx])
       IN  ddSeen' = res[1] /\ ddOut' = res[2]
    /\ ddIdx' = ddIdx + 1
    /\ UNCHANGED <<ddFn, ddIn, ddPc>>
    /\ UNCHANGED OthersThanDedupe

\* the loop is over: "return out" / "return results"
DedupeReturn ==
    /\ ddPc = "loop"
    /\ ddFn # "run_all.dedupe"
    /\ ddIdx > Len(ddIn)
    /\ ddPc' = "done"
    /\ UNCHANGED <<ddFn, ddIn, ddIdx, ddSeen, ddOut>>
    /\ UNCHANGED OthersThanDedupe

\* run_all: dedupe(as_df(rows))
RunAllDedupeCall ==
    /\ ddPc = "loop"
    /\ ddFn = "run_all.dedupe"
    /\ ddOut' = RunAllDedupe(AsDfUrl(ddIn))
    /\ ddPc' = "done"
    /\ UNCHANGED <<ddFn, ddIn, ddIdx, ddSeen>>
    /\ UNCHANGED OthersThanDedupe

DedupeNext == DedupeRowsIter \/ ParseListingsIter \/ DedupeReturn \/ RunAllDedupeCall

SpecDedupe == DedupeInit /\ [][DedupeNext]_vars

(***************************************************************************)
(* Claims about intra-run deduplication (checked under SpecDedupe).        *)
(***************************************************************************)
\* the first record of every non-empty url and every record without url
IsFirstOccurrence(rows, i) ==
    ~KeyTruthy(rows[i].url) \/ \A j \in 1..(i - 1) : rows[j].url # rows[i].url

FirstOccurrences(rows) ==
    SelectIdx(rows, 1, {i \in 1..Len(rows) : IsFirstOccurrence(rows, i)})

\* C4: dedupe_rows of craigslist and of cars.com returns the subsequence of
\* its input that keeps, for each non-empty URL, exactly the first record
\* carrying it (and the records without URL), in input order.
C4_DedupeKeepsFirst ==
    (ddPc = "done" /\ ddFn \in {"craigslist.dedupe_rows", "carscom.dedupe_rows"}) =>
        ddOut = FirstOccurrences(ddIn)

\* C4 witness: [{u1, A}, {u2, A}, {u1, B}] gave [{u1, A}, {u2, A}].
C4_Witness ==
    /\ ddPc = "done"
    /\ ddFn \in {"craigslist.dedupe_rows", "carscom.dedupe_rows"}
    /\ ddIn = <<[url |-> "u1", title |-> "A"], [url |-> "u2", title |-> "A"],
                [url |-> "u1", title |-> "B"]>>
    /\ ddOut = <<[url |-> "u1", title |-> "A"], [url |-> "u2", title |-> "A"]>>

\* the titles of the records without URL of a list, in order (a record
\* without URL has a title; its url is None, or empty after as_df)
UrlLessTitles(rows) ==
    LET kept == SelectIdx(rows, 1, {i \in 1..Len(rows) :
                     rows[i].url \in {None, EmptyBytes} /\ ~IsInvalidItem(rows[i])})
    IN  [i \in 1..Len(kept) |-> kept[i].title]

\* C5 (as claimed): every deduplication step returns all the URL-less
\* records of its input: none is dropped as a duplicate of another.
C5_UrlLessKept ==
    ddPc = "done" => UrlLessTitles(ddOut) = UrlLessTitles(ddIn)

\* C5, the steps for which it holds: dedupe_rows and parse_listings
C5_UrlLessKeptByScrapers ==
    (ddPc = "done" /\ ddFn # "run_all.dedupe") =>
        UrlLessTitles(ddOut) = UrlLessTitles(ddIn)

(***************************************************************************)
(* URL canonicalization: utils/url.py canonical_url, the url field of the  *)
(* records of parse_listings, and canonical_url of run_all.py as as_df     *)
(* applies it. urllib.parse is modelled on character sequences.            *)
(***************************************************************************)
\* length of the generated host, path, query and fragment texts
MaxUrlPart == 1

Str_http == <<"h", "t", "t", "p">>
Str_https == <<"h", "t", "t", "p", "s">>
Str_HTTPS == <<"H", "T", "T", "P", "S">>
Str_ht == <<"h", "t">>
Str_utm_ == <<"u", "t", "m", "_">>

\* str.lower() on the letters of the model
LowerChar(c) ==
    CASE c = "H" -> "h" [] c = "T" -> "t" [] c = "P" -> "p" [] c = "S" -> "s"
      [] OTHER -> c
Lower(s) == [i \in 1..Len(s) |-> LowerChar(s[i])]

Letters == {"h", "t", "p", "s", "w", "u", "m", "H", "T", "P", "S"}
\* urllib.parse.scheme_chars, among the characters of the model
SchemeChars == Letters
\* urllib.parse.uses_netloc, among the schemes of the model
UsesNetloc == {<<>>, Str_http, Str_https}

\* s.find(c) + 1: the first index of c in s, 0 when absent
FindChar(s, c) ==
    IF \E i \in 1..Len(s) : s[i] = c
    THEN CHOOSE i \in 1..Len(s) : s[i] = c /\ \A j \in 1..(i - 1) : s[j] # c
    ELSE 0

\* s[i-1:], s[:n]
From(s, i) == SubSeq(s, i, Len(s))
Prefix(s, n) == SubSeq(s, 1, IF n < Len(s) THEN n ELSE Len(s))
StartsWith(s, p) == Prefix(s, Len(p)) = p

\* s.split(c, 1): <<head, tail>>, or <<s>> when c is absent
SplitFirst(s, c) ==
    LET k == FindChar(s, c)
    IN  IF k = 0 THEN <<s>> ELSE <<SubSeq(s, 1, k - 1), From(s, k + 1)>>

\* s.split(c)
RECURSIVE Split(_, _)
Split(s, c) ==
    LET k == FindChar(s, c)
    IN  IF k = 0 THEN <<s>> ELSE <<SubSeq(s, 1, k - 1)>> \o Split(From(s, k + 1), c)

\* sep.join(pieces)
RECURSIVE Join(_, _)
Join(pieces, sep) ==
    IF pieces = <<>> THEN <<>>
    ELSE IF Len(pieces) = 1 THEN pieces[1]
    ELSE pieces[1] \o sep \o Join(Tail(pieces), sep)

\* urllib.parse._splitnetloc(url, 2): the netloc ends at the first of / ? #
SplitNetloc(url) ==
    LET D == {i \in 3..Len(url) : url[i] \in {"/", "?", "#"}}
        delim == IF D = {} THEN Len(url) + 1
                 ELSE CHOOSE i \in D : \A j \in D : i <= j
    IN  <<SubSeq(url, 3, delim - 1), From(url, delim)>>

\* urllib.parse.urlsplit. The model has no whitespace, control characters
\* or brackets, so the stripping and the IPv6 checks do nothing.
UrlSplit(url) ==
    LET i == FindChar(url, ":")
        hasScheme == /\ i > 1
                     /\ url[1] \in Letters
                     /\ \A k \in 1..(i - 1) : url[k] \in SchemeChars
        scheme == IF hasScheme THEN Lower(SubSeq(url, 1, i - 1)) ELSE <<>>
        u1 == IF hasScheme THEN From(url, i + 1) ELSE url
        hasNetloc == Prefix(u1, 2) = <<"/", "/">>
        netloc == IF hasNetloc THEN SplitNetloc(u1)[1] ELSE <<>>
        u2 == IF hasNetloc THEN SplitNetloc(u1)[2] ELSE u1
        f == SplitFirst(u2, "#")
        fragment == IF Len(f) = 2 THEN f[2] ELSE <<>>
        q == SplitFirst(f[1], "?")
        query == IF Len(q) = 2 THEN q[2] ELSE <<>>
    IN  [scheme |-> scheme, netloc |-> netloc, path |-> q[1],
         query |-> query, fragment |-> fragment]

\* urllib.parse.urlunsplit
UrlUnsplit(scheme, netloc, path, query, fragment) ==
    LET u1 == IF \/ netloc # <<>>
                 \/ (scheme # <<>> /\ scheme \in UsesNetloc
                       /\ Prefix(path, 2) # <<"/", "/">>)
              THEN <<"/", "/">> \o netloc
                   \o (IF path # <<>> /\ Prefix(path, 1) # <<"/">>
                       THEN <<"/">> \o path ELSE path)
              ELSE path
        u2 == IF scheme # <<>> THEN scheme \o <<":">> \o u1 ELSE u1
        u3 == IF query # <<>> THEN u2 \o <<"?">> \o query ELSE u2
    IN  IF fragment # <<>> THEN u3 \o <<"#">> \o fragment ELSE u3

\* mutant: the query is put back
CanonicalUrlKeepsQuery(url) ==
    LET parts == UrlSplit(url)
    IN  UrlUnsplit(parts.scheme, parts.netloc, parts.path, parts.query, <<>>)

\* utils/url.py canonical_url
CanonicalUrl(url) ==
    LET parts == UrlSplit(url)
    IN  UrlUnsplit(parts.scheme, parts.netloc, parts.path, <<>>, <<>>)

\* urllib.parse.quote_plus on the characters of the model
QuoteChar(c) ==
    CASE c = "/" -> <<"%", "2", "F">> [] c = "?" -> <<"%", "3", "F">>
      [] c = "=" -> <<"%", "3", "D">> [] OTHER -> <<c>>
RECURSIVE QuotePlus(_)
QuotePlus(s) == IF s = <<>> THEN <<>> ELSE QuoteChar(Head(s)) \o QuotePlus(Tail(s))

\* urllib.parse.parse_qsl(qs, keep_blank_values=True): the <<name, value>>
\* pairs. The model has no "%" and no "+", so unquoting changes nothing.
ParseQsl(qs) ==
    IF qs = <<>> THEN <<>>
    ELSE LET pieces == Split(qs, "&")
             nonEmpty == SelectSeq(pieces, LAMBDA x : x # <<>>)
         IN  [i \in 1..Len(nonEmpty) |->
                 LET nv == SplitFirst(nonEmpty[i], "=")
                 IN  IF Len(nv) = 2 THEN nv ELSE <<nv[1], <<>>>>]

\* urllib.parse.urlencode(q, doseq=True) of a list of str pairs
UrlEncode(q) ==
    Join([i \in 1..Len(q) |-> QuotePlus(q[i][1]) \o <<"=">> \o QuotePlus(q[i][2])],
         <<"&">>)

\* run_all.py canonical_url: drops utm_* parameters and the fragment
RunAllCanonicalUrl(u) ==
    LET s0 == UrlSplit(u)
        q == SelectSeq(ParseQsl(s0.query),
                       LAMBDA kv : ~StartsWith(Lower(kv[1]), Str_utm_))
    IN  UrlUnsplit(s0.scheme, s0.netloc, s0.path, UrlEncode(q), <<>>)

\* the site base the hrefs are joined to: "https://" and the site's host
BaseScheme == Str_https
BaseNetloc == <<"w">>

\* urllib.parse.urljoin(base, url) for a non-empty url that is absolute or
\* starts with "/" (the hrefs of the model have no ";" and no dot segments,
\* and the base has an empty path and no query)
UrlJoin(url) ==
    LET p == UrlSplit(url)
        scheme == IF p.scheme = <<>> THEN BaseScheme ELSE p.scheme
    IN  IF scheme # BaseScheme THEN url
        ELSE IF p.netloc # <<>>
             THEN UrlUnsplit(scheme, p.netloc, p.path, p.query, p.fragment)
        ELSE UrlUnsplit(scheme, BaseNetloc, p.path, p.query, p.fragment)

\* scrape_craigslist.parse_listings, structured data: lines 109-112
CraigslistJsonUrl(url) ==
    CanonicalUrl(IF ~StartsWith(url, Str_http) THEN UrlJoin(url) ELSE url)

\* scrape_craigslist.parse_listings, result rows: lines 156-158
CraigslistDomUrl(href) == CanonicalUrl(UrlJoin(href))

\* scrape_carscom.parse_listings: lines 233-234
CarscomUrl(href) == CanonicalUrl(UrlJoin(href))

\* scrape_cargurus._row_from_item: lines 119-126
CargurusItemUrl(url) == IF ~StartsWith(url, Str_http) THEN UrlJoin(url) ELSE url

\* scrape_cargurus.parse_listings, cards: line 175
CargurusCardUrl(href) == UrlJoin(href)

ParseUrlFns ==
    {"craigslist.json", "craigslist.dom", "carscom", "cargurus.item", "cargurus.card"}
UrlFns == {"utils.canonical_url"} \cup ParseUrlFns

\* the components of the generated urls
UrlSchemes == {Str_https, Str_HTTPS, Str_ht}
UrlHosts == SeqsUpTo({"w", ":"}, MaxUrlPart) \ {<<>>}
UrlPaths == {<<>>} \cup {<<"/">> \o x : x \in SeqsUpTo({"s", "/"}, MaxUrlPart)}
UrlQueries ==
    {Absent} \cup SeqsUpTo({"s", "/"}, MaxUrlPart)
    \cup {<<"u", "t", "m", "_", "s", "=", "s">>,
          <<"u", "t", "m", "_", "s", "=", "s", "&", "s", "=", "s">>}
UrlFragments == {Absent} \cup SeqsUpTo({"?", "#"}, MaxUrlPart)

\* scheme://host path [?query] [#fragment]
AbsoluteUrlParts ==
    [scheme : UrlSchemes, host : UrlHosts, path : UrlPaths,
     query : UrlQueries, fragment : UrlFragments]
\* an href that is an absolute path: /path [?query] [#fragment]
RelativeUrlParts ==
    [scheme : {Absent}, host : {Absent}, path : UrlPaths \ {<<>>},
     query : UrlQueries, fragment : UrlFragments]

UrlText(parts) ==
    (IF parts.scheme = Absent THEN <<>>
     ELSE parts.scheme \o <<":", "/", "/">> \o parts.host)
    \o parts.path
    \o (IF parts.query = Absent THEN <<>> ELSE <<"?">> \o parts.query)
    \o (IF parts.fragment = Absent THEN <<>> ELSE <<"#">> \o parts.fragment)

UrlInit ==
    /\ urlFn \in UrlFns
    /\ urlParts \in IF urlFn = "utils.canonical_url" THEN AbsoluteUrlParts
                     ELSE AbsoluteUrlParts \cup RelativeUrlParts
    /\ urlIn = UrlText(urlParts)
    /\ urlOut1 = <<>>
    /\ urlOut2 = <<>>
    /\ urlPc = "input"
    /\ MergeIdle /\ DedupeIdle /\ FilterIdle /\ ScrapeIdle
    /\ FetchIdle /\ RunAllIdle

\* canonical_url(u)
Canonicalize ==
    /\ urlPc = "input"
    /\ urlFn = "utils.canonical_url"
    /\ urlOut1' = CanonicalUrl(urlIn)
    /\ urlPc' = "once"
    /\ UNCHANGED <<urlFn, urlParts, urlIn, urlOut2>>
    /\ UNCHANGED OthersThanUrl

\* canonical_url(canonical_url(u))
CanonicalizeAgain ==
    /\ urlPc = "once"
    /\ urlFn = "utils.canonical_url"
    /\ urlOut2' = CanonicalUrl(urlOut1)
    /\ urlPc' = "twice"
    /\ UNCHANGED <<urlFn, urlParts, urlIn, urlOut1>>
    /\ UNCHANGED OthersThanUrl

\* parse_listings builds the url field of a record from the href
ParseUrlField ==
    /\ urlPc = "input"
    /\ urlFn \in ParseUrlFns
    /\ urlOut1' = CASE urlFn = "craigslist.json" -> CraigslistJsonUrl(urlIn)
                    [] urlFn = "craigslist.dom" -> CraigslistDomUrl(urlIn)
                    [] urlFn = "carscom" -> CarscomUrl(urlIn)
                    [] urlFn = "cargurus.item" -> CargurusItemUrl(urlIn)
                    [] urlFn = "cargurus.card" -> CargurusCardUrl(urlIn)
    /\ urlPc' = "once"
    /\ UNCHANGED <<urlFn, urlParts, urlIn, urlOut2>>
    /\ UNCHANGED OthersThanUrl

\* run_all.as_df: df["url"].map(canonical_url)
AsDfMapUrl ==
    /\ urlPc = "once"
    /\ urlFn \in ParseUrlFns
    /\ urlOut2' = RunAllCanonicalUrl(urlOut1)
    /\ urlPc' = "twice"
    /\ UNCHANGED <<urlFn, urlParts, urlIn, urlOut1>>
    /\ UNCHANGED OthersThanUrl

UrlNext == Canonicalize \/ CanonicalizeAgain \/ ParseUrlField \/ AsDfMapUrl

SpecUrl == UrlInit /\ [][UrlNext]_vars

(***************************************************************************)
(* Claims about URL canonicalization (checked under SpecUrl).              *)
(***************************************************************************)
HasQueryOrFragment(u) == \E i \in 1..Len(u) : u[i] \in {"?", "#"}

\* C6: for an absolute url scheme://host path ?query #fragment,
\* canonical_url returns scheme://host path (the scheme in lower case, as
\* urlsplit reports it) with no "?" and no "#", and applying it to its own
\* result returns that result.
C6_CanonicalUrl ==
    urlFn = "utils.canonical_url" =>
        /\ urlPc \in {"once", "twice"} =>
               /\ urlOut1 = Lower(urlParts.scheme) \o <<":", "/", "/">>
                               \o urlParts.host \o urlParts.path
               /\ ~HasQueryOrFragment(urlOut1)
        /\ urlPc = "twice" => urlOut2 = urlOut1

\* C6 witness: "https://w/s?s#?" gave "https://w/s", and again "https://w/s".
C6_Witness ==
    /\ urlFn = "utils.canonical_url"
    /\ urlPc = "twice"
    /\ urlIn = Str_https \o <<":", "/", "/", "w", "/", "s", "?", "s", "#", "?">>
    /\ urlOut1 = Str_https \o <<":", "/", "/", "w", "/", "s">>
    /\ urlOut2 = urlOut1

\* C7 (as claimed): the url of every record returned by parse_listings, and
\* of every row of as_df, holds no "?" and no "#".
C7_UrlStoredCanonical ==
    /\ (urlFn \in ParseUrlFns /\ urlPc \in {"once", "twice"}) =>
           ~HasQueryOrFragment(urlOut1)
    /\ (urlFn \in ParseUrlFns /\ urlPc = "twice") => ~HasQueryOrFragment(urlOut2)

\* C7, the sources for which it holds: craigslist and cars.com
C7_CanonicalInCraigslistAndCarscom ==
    (urlFn \in {"craigslist.json", "craigslist.dom", "carscom"}) =>
        /\ urlPc \in {"once", "twice"} => ~HasQueryOrFragment(urlOut1)
        /\ urlPc = "twice" => ~HasQueryOrFragment(urlOut2)

(***************************************************************************)
(* The config filter: filter_by_config of scrape_craigslist.py,            *)
(* scrape_carscom.py and scrape_cargurus.py, and run_all.apply_filters.    *)
(* A record is [price, mileage, title]; price and mileage are None or an   *)
(* integer, title is None (Absent) or a sequence of characters.            *)
(***************************************************************************)

MaxFilterRows == 1

\* config.PRICE_MAX, config.MILEAGE_MAX, config.YEAR_MIN
PRICE_MAX == 4000
MILEAGE_MAX == 200000
YEAR_MIN == 2004

\* an Optional[int] field: NoInt is None, SomeSomeInt(n) the integer n
NoInt == <<>>

SomeInt(n) == <<n>>

Value(v) == v[1]

FilterFns ==
    {"craigslist.filter_by_config", "carscom.filter_by_config",
     "cargurus.filter_by_config"}

\* "^2" stands for the one character SUPERSCRIPT TWO: str.isdigit() accepts
\* it and int() rejects it
DecimalDigits == {"0", "1", "2", "3", "4", "5", "6", "7", "8", "9"}

IsDigit(ch) == ch \in DecimalDigits \cup {"^2"}

DigitValue(ch) ==
    CASE ch = "0" -> 0 [] ch = "1" -> 1 [] ch = "2" -> 2 [] ch = "3" -> 3
      [] ch = "4" -> 4 [] ch = "5" -> 5 [] ch = "6" -> 6 [] ch = "7" -> 7
      [] ch = "8" -> 8 [] ch = "9" -> 9

\* int(s) raises ValueError
IntRaises(s) == \E i \in 1..Len(s) : s[i] \notin DecimalDigits

\* int(s) of a sequence of decimal digits
RECURSIVE IntOf(_)
IntOf(s) ==
    IF s = <<>> THEN 0
    ELSE 10 * IntOf(SubSeq(s, 1, Len(s) - 1)) + DigitValue(s[Len(s)])

\* r.get("title") or ""
TitleOrEmpty(title) == IF title = Absent THEN <<>> ELSE title

\* "".join(ch for ch in title[:4] if ch.isdigit())
YearDigits(title) == SelectSeq(Prefix(TitleOrEmpty(title), 4), IsDigit)

\* year_ok of filter_by_config
YearOk(title) ==
    LET year_digits == YearDigits(title)
    IN  IF Len(year_digits) = 4
        THEN IF IntRaises(year_digits) THEN TRUE
             ELSE ~(IntOf(year_digits) < YEAR_MIN)
        ELSE TRUE

\* a price check that excludes the record whose price is unknown
PriceOkFailClosed(r) == r.price # NoInt /\ Value(r.price) <= PRICE_MAX

\* not (r.get("price") is not None and r["price"] > int(config.PRICE_MAX))
PriceOk(r) == ~(r.price # NoInt /\ Value(r.price) > PRICE_MAX)

\* a mileage check that lets every record through
MileageOkUnchecked(r) == TRUE

\* not (r.get("mileage") is not None and r["mileage"] > int(config.MILEAGE_MAX))
MileageOk(r) == ~(r.mileage # NoInt /\ Value(r.mileage) > MILEAGE_MAX)

\* one iteration of the loop of filter_by_config: does the record stay?
CraigslistKeeps(r) == PriceOk(r) /\ YearOk(r.title)

CarscomKeeps(r) == PriceOk(r) /\ MileageOk(r) /\ YearOk(r.title)

CargurusKeeps(r) == PriceOk(r) /\ MileageOk(r) /\ YearOk(r.title)

\* run_all.apply_filters on the frame of as_df: the price mask, then the
\* mileage mask; there is no year check
ApplyFilters(df) ==
    LET byPrice(r) == r.price = NoInt \/ Value(r.price) <= PRICE_MAX
        byMiles(r) == r.mileage = NoInt \/ Value(r.mileage) <= MILEAGE_MAX
    IN  SelectSeq(SelectSeq(df, byPrice), byMiles)

FilterPrices == {NoInt, SomeInt(2000), SomeInt(PRICE_MAX), SomeInt(PRICE_MAX + 1)}

FilterMileages == {NoInt, SomeInt(50000), SomeInt(MILEAGE_MAX), SomeInt(MILEAGE_MAX + 1)}

FilterTitles ==
    { Absent,
      <<>>,
      <<"2", "0", "0">>,
      <<"2", "0", "0", "3">>,
      <<"2", "0", "0", "4", " ", "T">>,
      <<"T", "2", "0", "0", "2">>,
      <<"2", "0", "T", "2">>,
      <<"1", "5", "0", "0", " ", "T">>,
      <<"0", "1", "5", "0", " ", "T">>,
      <<"^2", "0", "0", "2">> }

\* the records of a source: parse_listings of craigslist sets mileage None
FilterRecords(fn) ==
    [price : FilterPrices,
     mileage : IF fn = "craigslist.filter_by_config" THEN {NoInt}
               ELSE FilterMileages,
     title : FilterTitles]

FilterInit ==
    /\ ftFn \in FilterFns \cup {"run_all.apply_filters"}
    /\ ftIn \in SeqsUpTo(FilterRecords(ftFn), MaxFilterRows)
    /\ ftIdx = 1
    /\ ftOut = <<>>
    /\ ftPc = "loop"
    /\ MergeIdle /\ DedupeIdle /\ UrlIdle /\ ScrapeIdle
    /\ FetchIdle /\ RunAllIdle

\* for r in rows: ... filtered.append(r)
FilterIter ==
    /\ ftPc = "loop"
    /\ ftFn \in FilterFns
    /\ ftIdx <= Len(ftIn)
    /\ LET r == ftIn[ftIdx]
           keeps == CASE ftFn = "craigslist.filter_by_config" -> CraigslistKeeps(r)
                      [] ftFn = "carscom.filter_by_config" -> CarscomKeeps(r)
                      [] ftFn = "cargurus.filter_by_config" -> CargurusKeeps(r)
       IN  ftOut' = IF keeps THEN Append(ftOut, r) ELSE ftOut
    /\ ftIdx' = ftIdx + 1
    /\ UNCHANGED <<ftFn, ftIn, ftPc>>
    /\ UNCHANGED OthersThanFilter

\* return filtered
FilterReturn ==
    /\ ftPc = "loop"
    /\ ftFn \in FilterFns
    /\ ftIdx > Len(ftIn)
    /\ ftPc' = "done"
    /\ UNCHANGED <<ftFn, ftIn, ftIdx, ftOut>>
    /\ UNCHANGED OthersThanFilter

\* combined = apply_filters(combined, args.price_max, args.miles_max)
ApplyFiltersCall ==
    /\ ftPc = "loop"
    /\ ftFn = "run_all.apply_filters"
    /\ ftOut' = ApplyFilters(ftIn)
    /\ ftIdx' = Len(ftIn) + 1
    /\ ftPc' = "done"
    /\ UNCHANGED <<ftFn, ftIn>>
    /\ UNCHANGED OthersThanFilter

FilterNext == FilterIter \/ FilterReturn \/ ApplyFiltersCall

SpecFilter == FilterInit /\ [][FilterNext]_vars

(***************************************************************************)
(* Claims about the config filter (checked under SpecFilter).              *)
(***************************************************************************)

\* the record is in the list returned
Kept(r) == \E j \in 1..Len(ftOut) : ftOut[j] = r

\* the checks other than the named one let the record through
OtherThanPriceOk(r) ==
    /\ r.mileage = NoInt \/ Value(r.mileage) <= MILEAGE_MAX
    /\ ftFn = "run_all.apply_filters" \/ YearOk(r.title)

OtherThanMileageOk(r) ==
    /\ r.price = NoInt \/ Value(r.price) <= PRICE_MAX
    /\ ftFn = "run_all.apply_filters" \/ YearOk(r.title)

\* C8: the filters are fail-open on unknown fields. In filter_by_config of
\* every source and in run_all.apply_filters, a record whose price is unknown
\* is kept whenever its mileage and its title pass, a record whose mileage is
\* unknown is kept whenever its price and its title pass, and a record whose
\* price is above the ceiling is excluded.
C8_FailOpen ==
    ftPc = "done" =>
        \A i \in 1..Len(ftIn) :
            LET r == ftIn[i]
            IN  /\ (r.price = NoInt /\ OtherThanPriceOk(r)) => Kept(r)
                /\ (r.mileage = NoInt /\ OtherThanMileageOk(r)) => Kept(r)
                /\ (r.price # NoInt /\ Value(r.price) > PRICE_MAX) => ~Kept(r)

\* C8 witness: cars.com kept the record of unknown price and mileage 50000.
C8_Witness ==
    /\ ftPc = "done"
    /\ ftFn = "carscom.filter_by_config"
    /\ ftIn = <<[price |-> NoInt, mileage |-> SomeInt(50000), title |-> Absent]>>
    /\ ftOut = ftIn

\* C8 witness of the exclusion: apply_filters dropped the record whose price
\* is above the ceiling.
C8_WitnessExcluded ==
    /\ ftPc = "done"
    /\ ftFn = "run_all.apply_filters"
    /\ ftIn = <<[price |-> SomeInt(PRICE_MAX + 1), mileage |-> NoInt, title |-> Absent]>>
    /\ ftOut = <<>>

\* C9: every record kept by filter_by_config of craigslist, cars.com or
\* cargurus has a price that is unknown or at most PRICE_MAX and a mileage
\* that is unknown or at most MILEAGE_MAX, at every step of the loop.
C9_KeptWithinCeilings ==
    ftFn \in FilterFns =>
        \A j \in 1..Len(ftOut) :
            /\ ftOut[j].price = NoInt \/ Value(ftOut[j].price) <= PRICE_MAX
            /\ ftOut[j].mileage = NoInt \/ Value(ftOut[j].mileage) <= MILEAGE_MAX

\* C9 witness: cargurus kept a record at both ceilings.
C9_Witness ==
    /\ ftPc = "done"
    /\ ftFn = "cargurus.filter_by_config"
    /\ Len(ftOut) = 1
    /\ ftOut[1].price = SomeInt(PRICE_MAX)
    /\ ftOut[1].mileage = SomeInt(MILEAGE_MAX)

\* a year a listing can be of: the text names no range, and every range one
\* may take leaves 0150 and 1500 outside
PlausibleYear(y) == y \in 1900..2100

\* C10 (as claimed): a record that passes the price and mileage checks is
\* excluded by filter_by_config exactly when the first 4 characters of its
\* title are all digits, they form a plausible year, and that year is less
\* than YEAR_MIN.
C10_YearCheck ==
    (ftPc = "done" /\ ftFn \in FilterFns) =>
        \A i \in 1..Len(ftIn) :
            LET r == ftIn[i]
                first4 == Prefix(TitleOrEmpty(r.title), 4)
                allDigits == Len(first4) = 4 /\ \A k \in 1..4 : IsDigit(first4[k])
            IN  (PriceOk(r) /\ MileageOk(r)) =>
                    (~Kept(r) <=>
                        /\ allDigits
                        /\ ~IntRaises(first4)
                        /\ PlausibleYear(IntOf(first4))
                        /\ IntOf(first4) < YEAR_MIN)

\* C10, the part that holds: a title that is missing, shorter than 4
\* characters, not 4 digits at its start, or 4 digits int() rejects passes
\* the year check, and 4 decimal digits below YEAR_MIN exclude the record
\* whatever the number.
C10_YearCheckOfTheCode ==
    (ftPc = "done" /\ ftFn \in FilterFns) =>
        \A i \in 1..Len(ftIn) :
            LET r == ftIn[i]
                first4 == Prefix(TitleOrEmpty(r.title), 4)
                allDecimal == Len(first4) = 4
                              /\ \A k \in 1..4 : first4[k] \in DecimalDigits
            IN  (PriceOk(r) /\ MileageOk(r)) =>
                    (~Kept(r) <=> (allDecimal /\ IntOf(first4) < YEAR_MIN))

(***************************************************************************)
(* scrape() and main() of scrape_craigslist.py, scrape_carscom.py and      *)
(* scrape_cargurus.py: the pagination loop, session.get under the Retry    *)
(* policy of make_session, parse_listings of each page, and the list that  *)
(* main() hands to write_csv.                                              *)
(***************************************************************************)
\* the largest MAX_PAGES of a run
MaxPages == 3

\* MAX_PAGES of the runs checked for termination
FairMaxPages == 2

\* Retry(total=4): the number of retries urllib3 allows after the first try
RetryTotal == 4

Sources == {"craigslist", "carscom", "cargurus"}

\* CRAIG_CATEGORIES; the other scrapers have one search
Categories(src) == IF src = "craigslist" THEN <<"cto", "cta">> ELSE <<"all">>

\* What the markup of a page holds for one listing
ItemA == [url |-> "u1", title |-> <<"T">>, price |-> NoInt, mileage |-> NoInt]
ItemB == [url |-> "u1", title |-> <<"T">>, price |-> SomeInt(2000), mileage |-> NoInt]
ItemC == [url |-> "u1", title |-> <<"T">>, price |-> SomeInt(PRICE_MAX + 1), mileage |-> NoInt]
ItemD == [url |-> None, title |-> <<"T">>, price |-> NoInt, mileage |-> NoInt]
\* a listing without link and title
ItemE == [url |-> None, title |-> Absent, price |-> NoInt, mileage |-> NoInt]

\* The listings of a page, in markup order
PageItemLists ==
    {<<>>, <<ItemE, ItemA>>, <<ItemA, ItemB>>, <<ItemC, ItemD>>}

\* datetime.utcnow().isoformat(timespec="seconds"): the two digits of the
\* seconds, as in Timestamps
IsoSeconds(t) ==
    LET digit(n) == CASE n = 0 -> "0" [] n = 1 -> "1" [] n = 2 -> "2"
                      [] n = 3 -> "3" [] n = 4 -> "4" [] n = 5 -> "5"
                      [] n = 6 -> "6" [] n = 7 -> "7" [] n = 8 -> "8"
                      [] n = 9 -> "9"
    IN  <<digit((t \div 10) % 10), digit(t % 10)>>

\* the dict parse_listings of craigslist appends (lines 138-149, 176-187)
CraigslistRecord(item, now) ==
    [source |-> "craigslist", title |-> item.title, price |-> item.price,
     mileage |-> NoInt, dealer |-> None, location |-> None,
     url |-> item.url, first_seen |-> now]

\* the dict parse_listings of cars.com appends (lines 272-283)
CarscomRecord(item, now) ==
    [source |-> "cars.com", title |-> item.title, price |-> item.price,
     mileage |-> item.mileage, dealer |-> None, location |-> None,
     url |-> item.url, first_seen |-> now]

\* the dict _row_from_item of cargurus returns (lines 128-136)
CargurusRecord(item) ==
    [source |-> "cargurus", title |-> item.title, price |-> item.price,
     mileage |-> item.mileage, dealer |-> None, location |-> None,
     url |-> item.url]

\* parse_listings of craigslist and cars.com from item i on: the
\* invalid-record guard, the seen_urls check, the record with first_seen
RECURSIVE ParseSeenUrls(_, _, _, _, _, _)
ParseSeenUrls(src, items, now, i, seen_urls, results) ==
    IF i > Len(items) THEN results
    ELSE LET item == items[i]
             rec == IF src = "craigslist" THEN CraigslistRecord(item, now)
                    ELSE CarscomRecord(item, now)
         IN  IF ~KeyTruthy(item.url) /\ ~StrTruthy(TitleOrEmpty(item.title))
             THEN ParseSeenUrls(src, items, now, i + 1, seen_urls, results)
             ELSE IF KeyTruthy(item.url) /\ item.url \in seen_urls
             THEN ParseSeenUrls(src, items, now, i + 1, seen_urls, results)
             ELSE ParseSeenUrls(src, items, now, i + 1,
                                IF KeyTruthy(item.url)
                                THEN seen_urls \cup {item.url} ELSE seen_urls,
                                Append(results, rec))

\* parse_listings of cargurus: one row per item of the embedded data
ParseCargurus(items) == [i \in 1..Len(items) |-> CargurusRecord(items[i])]

\* parse_listings(html) of a source
ParsePage(src, items, now) ==
    IF src = "cargurus" THEN ParseCargurus(items)
    ELSE ParseSeenUrls(src, items, now, 1, {}, <<>>)

\* dedupe_rows(rows) of craigslist or cars.com, from the pair <<seen, out>>
RECURSIVE DedupeRowsFold(_, _, _)
DedupeRowsFold(src, rows, acc) ==
    IF rows = <<>> THEN acc[2]
    ELSE DedupeRowsFold(src, Tail(rows),
             IF src = "carscom"
             THEN CarscomDedupeRowsStep(acc[1], acc[2], Head(rows))
             ELSE CraigslistDedupeRowsStep(acc[1], acc[2], Head(rows)))

DedupeRows(src, rows) == DedupeRowsFold(src, rows, <<{}, <<>>>>)

\* fieldnames of write_csv
Fieldnames(src) ==
    IF src = "cargurus"
    THEN <<"source", "title", "price", "mileage", "dealer", "location", "url">>
    ELSE <<"source", "title", "price", "mileage", "dealer", "location", "url",
           "first_seen">>

\* csv.DictWriter.writerow: a key outside fieldnames raises ValueError
WriteRaises(fieldnames, rows) ==
    \E i \in 1..Len(rows) :
        \E k \in DOMAIN rows[i] : \A j \in 1..Len(fieldnames) : fieldnames[j] # k

\* write_csv(rows, path): the header, and every row in the column order of
\* fieldnames (a missing key is written as the empty cell)
WriteCsv(fieldnames, rows) ==
    [header |-> fieldnames,
     rows |-> [i \in 1..Len(rows) |->
                 [j \in 1..Len(fieldnames) |->
                     IF fieldnames[j] \in DOMAIN rows[i]
                     THEN <<fieldnames[j], rows[i][fieldnames[j]]>>
                     ELSE <<fieldnames[j], "">>]]]

\* mutant: a main() that filters before it deduplicates
MainRowsFilterFirst(src, rows) ==
    CASE src = "craigslist" ->
             DedupeRows(src, SelectSeq(rows, CraigslistKeeps))
      [] src = "carscom" ->
             DedupeRows(src, SelectSeq(rows, CarscomKeeps))
      [] src = "cargurus" -> SelectSeq(rows, CargurusKeeps)

\* what main() does with the rows of scrape() before write_csv
MainRows(src, rows) ==
    CASE src = "craigslist" ->
             SelectSeq(DedupeRows(src, rows), CraigslistKeeps)
      [] src = "carscom" ->
             SelectSeq(DedupeRows(src, rows), CarscomKeeps)
      [] src = "cargurus" -> SelectSeq(rows, CargurusKeeps)

\* the outcomes of one GET attempt: a 200 page, a status of
\* status_forcelist, another status, a connection error
TransientOutcomes == {"503", "error"}

\* Responses of status 200: the listings of the page, and whether the text
\* looks like a bot check (only a page without listings is looked at)
OkResponses ==
    {[status |-> "200", items |-> l, bot |-> b] :
        l \in PageItemLists, b \in BOOLEAN} \ 
    {[status |-> "200", items |-> l, bot |-> TRUE] : l \in PageItemLists \ {<<>>}}

\* the None a fetcher of cars.com returns
NoHtml == [status |-> "none", items |-> <<>>, bot |-> FALSE]

\* fetch_html_requests(session, url), from what session.get gave: resp.text
\* of a response of status 200, None for another status or an error
FetchHtmlRequests(resp) == IF resp.status = "200" THEN resp ELSE NoHtml

\* the page has an element ".vehicle-card": a listing of the markup
HasVehicleCard(page) == page.items # <<>>

\* fetch_html_selenium(driver, url), from the page the browser loads:
\* driver.page_source once WebDriverWait has found a vehicle card, None when
\* driver.get raises or the wait times out; the status is not looked at
FetchHtmlSelenium(page) ==
    IF page.status # "error" /\ HasVehicleCard(page) THEN page ELSE NoHtml

\* looks_like_bot_check(html)
LooksLikeBotCheck(html) == html # NoHtml /\ html.bot

\* what the browser can load for a search url: a failed load, a page without
\* cards, a page whose card has neither link nor title, a page with a listing
BrowserPages ==
    {[status |-> "error", items |-> <<>>, bot |-> FALSE],
     [status |-> "200", items |-> <<>>, bot |-> FALSE],
     [status |-> "200", items |-> <<>>, bot |-> TRUE],
     [status |-> "200", items |-> <<ItemE>>, bot |-> FALSE],
     [status |-> "200", items |-> <<ItemE>>, bot |-> TRUE],
     [status |-> "200", items |-> <<ItemA>>, bot |-> FALSE]}

\* a loop that goes on after a page without records
StopsOnEmptyNever(page_rows) == FALSE

\* "if not page_rows: ... break"
StopsOnEmpty(page_rows) == page_rows = <<>>

\* a handler that lets the failed request out of scrape()
GetOutcomeUncaught(resp) ==
    IF resp.status = "200" THEN "parse" ELSE "raise"

\* lines 294-302 of craigslist, 258-266 of cargurus: the RequestException is
\* caught and a status other than 200 stops the loop
GetOutcome(resp) ==
    IF resp.status = "raised" THEN "break"
    ELSE IF resp.status # "200" THEN "break"
    ELSE "parse"

\* mutant: a page loop without its breaks
AfterPageIgnoresStop(src, cat, page, stop) ==
    IF page < scMaxPages THEN <<cat, page + 1, "next">>
    ELSE IF cat < Len(Categories(src)) THEN <<cat + 1, 1, "next">>
    ELSE <<cat, page, "return">>

\* mutant: range(1, MAX_PAGES + 2)
AfterPageOneMore(src, cat, page, stop) ==
    IF ~stop /\ page < scMaxPages + 1 THEN <<cat, page + 1, "next">>
    ELSE IF cat < Len(Categories(src)) THEN <<cat + 1, 1, "next">>
    ELSE <<cat, page, "return">>

\* where the loops go after a page: <<category, page, pc>>
AfterPage(src, cat, page, stop) ==
    IF ~stop /\ page < scMaxPages THEN <<cat, page + 1, "next">>
    ELSE IF cat < Len(Categories(src)) THEN <<cat + 1, 1, "next">>
    ELSE <<cat, page, "return">>

\* the pc at the start of a page: cars.com under USE_SELENIUM issues no GET
StartPc(src, useSel) == IF src = "carscom" /\ useSel THEN "page" ELSE "get"

\* the state at the start of scrape() under MAX_PAGES = cap
ScrapeStart(cap) ==
    /\ scSrc \in Sources
    /\ scMaxPages = cap
    /\ scUseSel \in IF scSrc = "carscom" THEN BOOLEAN ELSE {FALSE}
    /\ scAutoSel \in IF scSrc = "carscom" THEN BOOLEAN ELSE {FALSE}
    /\ scCat = 1
    /\ scPage = 1
    /\ scRetries = RetryTotal
    /\ scAttempts = 0
    /\ scResp = NoResp
    /\ scDriver = FALSE
    /\ scRows = <<>>
    /\ scLog = <<>>
    /\ scClock = 1
    /\ scResult = <<>>
    /\ scPersisted = <<>>
    /\ scPc = StartPc(scSrc, scUseSel)
    /\ scDriversMade = 0
    /\ scDriverQuit = FALSE
    /\ scFetch = NoFetch
    /\ MergeIdle /\ DedupeIdle /\ UrlIdle /\ FilterIdle /\ FetchIdle /\ RunAllIdle

ScrapeInit == ScrapeStart(MaxPages)

\* session.get(url): one GET attempt of the adapter that failed with a
\* status of status_forcelist or a connection error. Retry.increment takes
\* one off total; below zero the budget is exhausted: the last response is
\* returned (raise_on_status=False) or the error is raised.
GetAttemptFails ==
    /\ scPc = "get"
    /\ \E o \in TransientOutcomes :
        /\ scAttempts' = scAttempts + 1
        /\ IF scRetries - 1 < 0
           THEN /\ scResp' = [status |-> IF o = "error" THEN "raised" ELSE o,
                              items |-> <<>>, bot |-> FALSE]
                /\ scPc' = "page"
                /\ UNCHANGED scRetries
           ELSE /\ scRetries' = scRetries - 1
                /\ UNCHANGED <<scResp, scPc>>
    /\ UNCHANGED <<scSrc, scMaxPages, scUseSel, scAutoSel, scCat, scPage, scDriver,
                   scDriversMade, scDriverQuit, scFetch, scRows, scLog, scClock,
                   scResult, scPersisted>>
    /\ UNCHANGED OthersThanScrape

\* session.get(url): a GET attempt answered with 200, or with a status
\* outside status_forcelist, is returned at once
GetAttemptReturns ==
    /\ scPc = "get"
    /\ \E resp \in OkResponses \cup {[status |-> "404", items |-> <<>>, bot |-> FALSE]} :
        scResp' = resp
    /\ scAttempts' = scAttempts + 1
    /\ scPc' = "page"
    /\ UNCHANGED <<scSrc, scMaxPages, scUseSel, scAutoSel, scCat, scPage, scRetries, scDriver,
                   scDriversMade, scDriverQuit, scFetch, scRows, scLog, scClock,
                   scResult, scPersisted>>
    /\ UNCHANGED OthersThanScrape

\* one entry of the history of pages
LogEntry(cat, page, outcome, rows) ==
    [cat |-> cat, page |-> page, outcome |-> outcome, rows |-> rows]

\* craigslist lines 294-314, cargurus lines 258-276: the rest of one
\* iteration of the page loop, once session.get has returned or raised
PageDone ==
    /\ scPc = "page"
    /\ scSrc \in {"craigslist", "cargurus"}
    /\ LET what == GetOutcome(scResp)
           page_rows == IF what = "parse"
                        THEN ParsePage(scSrc, scResp.items, IsoSeconds(scClock))
                        ELSE <<>>
           stop == what # "parse" \/ StopsOnEmpty(page_rows)
           outcome == IF what # "parse" THEN "failed"
                      ELSE IF page_rows = <<>> THEN "empty" ELSE "rows"
           next == AfterPage(scSrc, scCat, scPage, stop)
       IN  IF what = "raise"
           THEN /\ scPc' = "raised"
                /\ UNCHANGED <<scCat, scPage, scRetries, scAttempts, scResp,
                               scRows, scLog, scClock>>
           ELSE /\ scRows' = IF stop THEN scRows ELSE scRows \o page_rows
                /\ scLog' = Append(scLog, LogEntry(scCat, scPage, outcome, page_rows))
                /\ scCat' = next[1]
                /\ scPage' = next[2]
                /\ scPc' = IF next[3] = "return" THEN "return"
                           ELSE StartPc(scSrc, scUseSel)
                /\ scRetries' = RetryTotal
                /\ scAttempts' = IF next[3] = "return" THEN scAttempts ELSE 0
                /\ scResp' = IF next[3] = "return" THEN scResp ELSE NoResp
                /\ scClock' = scClock + 1
    /\ UNCHANGED <<scSrc, scMaxPages, scUseSel, scAutoSel, scDriver, scDriversMade,
                   scDriverQuit, scFetch, scResult, scPersisted>>
    /\ UNCHANGED OthersThanScrape

\* one selenium step of cars.com (lines 474-485, 492-500, 504-512):
\* make_driver() when there is no driver (ok tells whether it succeeds),
\* then fetch_html_selenium of the page the browser loads and parse_listings;
\* without a driver nothing changes unless clear is set (lines 483-485)
SeleniumStep(st, ok, page, now, clear) ==
    LET tries == st.tries + (IF st.driver THEN 0 ELSE 1)
        made == st.made + (IF ~st.driver /\ ok THEN 1 ELSE 0)
        html == FetchHtmlSelenium(page)
    IN  IF st.driver \/ ok
        THEN [st EXCEPT !.driver = TRUE, !.made = made, !.tries = tries,
                        !.browser = st.browser + 1, !.html = html,
                        !.rows = IF html # NoHtml
                                 THEN ParsePage("carscom", html.items, now)
                                 ELSE <<>>]
        ELSE IF clear
        THEN [st EXCEPT !.tries = tries, !.html = NoHtml, !.rows = <<>>]
        ELSE [st EXCEPT !.tries = tries]

\* the states after a selenium step taken from st, one per outcome of
\* make_driver and of the load of the page
SeleniumSteps(st, now, clear) ==
    {SeleniumStep(st, ok, page, now, clear) :
        ok \in BOOLEAN, page \in BrowserPages}

\* mutant: no fallback after a failed requests fetch
FallbackOnFailNever(st, autoSel) == FALSE

\* line 491: "if not page_rows and (html is None) and AUTO_SELENIUM_ON_FAIL"
FallbackOnFail(st, autoSel) == st.rows = <<>> /\ st.html = NoHtml /\ autoSel

\* mutant: the selenium path is taken for every page without records
FallbackOnBotCheckAlways(st, useSel, autoSel) == st.rows = <<>>

\* line 503: "if not page_rows and (USE_SELENIUM or (AUTO_SELENIUM_ON_FAIL
\* and looks_like_bot_check(html)))"
FallbackOnBotCheck(st, useSel, autoSel) ==
    st.rows = <<>> /\ (useSel \/ (autoSel /\ LooksLikeBotCheck(st.html)))

\* cars.com lines 472-488: the first fetch of the page, by selenium under
\* USE_SELENIUM, else by fetch_html_requests
CarscomAfter1(resp, driver, useSel, now) ==
    LET st0 == [driver |-> driver, html |-> NoHtml, rows |-> <<>>, made |-> 0,
                gets |-> 0, browser |-> 0, tries |-> 0]
        html0 == FetchHtmlRequests(resp)
    IN  IF useSel THEN SeleniumSteps(st0, now, TRUE)
        ELSE {[st0 EXCEPT !.gets = 1, !.html = html0,
                          !.rows = IF html0 # NoHtml
                                   THEN ParsePage("carscom", html0.items, now)
                                   ELSE <<>>]}

\* cars.com lines 490-500: the fallback after a failed requests fetch
CarscomAfter2(resp, driver, useSel, autoSel, now) ==
    UNION {IF FallbackOnFail(st1, autoSel) THEN SeleniumSteps(st1, now, FALSE)
           ELSE {st1} : st1 \in CarscomAfter1(resp, driver, useSel, now)}

\* cars.com lines 469-512: the driver, html, page_rows and fetch counts a
\* page can end with
CarscomPage(resp, driver, useSel, autoSel, now) ==
    UNION {IF FallbackOnBotCheck(st2, useSel, autoSel)
           THEN SeleniumSteps(st2, now, FALSE)
           ELSE {st2} : st2 \in CarscomAfter2(resp, driver, useSel, autoSel, now)}

\* the points of a cars.com page at which parse_listings(html) is called:
\* after each fetch that returned content
CarscomParsePoints(resp, driver, useSel, autoSel, now) ==
    {st \in CarscomAfter1(resp, driver, useSel, now)
            \cup CarscomAfter2(resp, driver, useSel, autoSel, now)
            \cup CarscomPage(resp, driver, useSel, autoSel, now) :
        st.html # NoHtml}

\* the fetch counts of a page
FetchCounts(st) == [gets |-> st.gets, browser |-> st.browser, tries |-> st.tries]

\* cars.com lines 469-527: the rest of one iteration of the page loop
CarscomPageDone ==
    /\ scPc = "page"
    /\ scSrc = "carscom"
    /\ \E st \in CarscomPage(scResp, scDriver, scUseSel, scAutoSel,
                             IsoSeconds(scClock)) :
        LET stop == StopsOnEmpty(st.rows)
            outcome == IF st.rows # <<>> THEN "rows"
                       ELSE IF st.html = NoHtml THEN "failed" ELSE "empty"
            next == AfterPage(scSrc, scCat, scPage, stop)
        IN  /\ scDriver' = st.driver
            /\ scDriversMade' = scDriversMade + st.made
            /\ scFetch' = FetchCounts(st)
            /\ scRows' = IF stop THEN scRows ELSE scRows \o st.rows
            /\ scLog' = Append(scLog, LogEntry(scCat, scPage, outcome, st.rows))
            /\ scCat' = next[1]
            /\ scPage' = next[2]
            /\ scPc' = IF next[3] = "return" THEN "return"
                       ELSE StartPc(scSrc, scUseSel)
            /\ scRetries' = RetryTotal
            /\ scAttempts' = IF next[3] = "return" THEN scAttempts ELSE 0
            /\ scResp' = IF next[3] = "return" THEN scResp ELSE NoResp
            /\ scClock' = scClock + 1
    /\ UNCHANGED <<scSrc, scMaxPages, scUseSel, scAutoSel, scDriverQuit, scResult,
                   scPersisted>>
    /\ UNCHANGED OthersThanScrape

\* parse_listings(html) raises: no handler of the page loop catches it
\* (craigslist line 304, cars.com lines 482, 488, 500, 512, cargurus line
\* 268), so the exception leaves scrape() and the lines after the loop are
\* not run
ParseRaises ==
    /\ scPc = "page"
    /\ IF scSrc = "carscom"
       THEN \E st \in CarscomParsePoints(scResp, scDriver, scUseSel, scAutoSel,
                                         IsoSeconds(scClock)) :
               /\ scDriver' = st.driver
               /\ scDriversMade' = scDriversMade + st.made
               /\ scFetch' = FetchCounts(st)
       ELSE /\ GetOutcome(scResp) = "parse"
            /\ UNCHANGED <<scDriver, scDriversMade, scFetch>>
    /\ scPc' = "crashed"
    /\ UNCHANGED <<scSrc, scMaxPages, scUseSel, scAutoSel, scCat, scPage, scRetries,
                   scAttempts, scResp, scDriverQuit, scRows, scLog, scClock,
                   scResult, scPersisted>>
    /\ UNCHANGED OthersThanScrape

\* craigslist line 317: return dedupe_rows(all_rows); cars.com lines
\* 529-535: "if driver: driver.quit()", return all_rows; cargurus line 278:
\* return all_rows
ScrapeReturn ==
    /\ scPc = "return"
    /\ scDriverQuit' = scDriver
    /\ scResult' = IF scSrc = "craigslist" THEN DedupeRows(scSrc, scRows)
                   ELSE scRows
    /\ scPc' = "returned"
    /\ UNCHANGED <<scSrc, scMaxPages, scUseSel, scAutoSel, scCat, scPage, scRetries,
                   scAttempts, scResp, scDriver, scDriversMade, scFetch, scRows,
                   scLog, scClock, scPersisted>>
    /\ UNCHANGED OthersThanScrape

\* main(): dedupe_rows and filter_by_config as the source has them, then
\* write_csv
MainPersist ==
    /\ scPc = "returned"
    /\ LET rows == MainRows(scSrc, scResult)
       IN  IF WriteRaises(Fieldnames(scSrc), rows)
           THEN /\ scPc' = "raised"
                /\ UNCHANGED scPersisted
           ELSE /\ scPersisted' = WriteCsv(Fieldnames(scSrc), rows)
                /\ scPc' = "done"
    /\ UNCHANGED <<scSrc, scMaxPages, scUseSel, scAutoSel, scCat, scPage, scRetries,
                   scAttempts, scResp, scDriver, scDriversMade, scDriverQuit,
                   scFetch, scRows, scLog, scClock, scResult>>
    /\ UNCHANGED OthersThanScrape

ScrapeNext ==
    \/ GetAttemptFails
    \/ GetAttemptReturns
    \/ PageDone
    \/ CarscomPageDone
    \/ ParseRaises
    \/ ScrapeReturn
    \/ MainPersist

SpecScrape == ScrapeInit /\ [][ScrapeNext]_vars

(***************************************************************************)
(* Claims about scrape() and main() (checked under SpecScrape).            *)
(***************************************************************************)

\* the records of all the pages of the history, in fetch order
RECURSIVE LogRows(_)
LogRows(log) ==
    IF log = <<>> THEN <<>> ELSE Head(log).rows \o LogRows(Tail(log))

\* what scrape() has to return for the pages of the history: their records,
\* which craigslist passes through dedupe_rows
RecordsOfPages ==
    IF scSrc = "craigslist" THEN DedupeRows(scSrc, LogRows(scLog))
    ELSE LogRows(scLog)

\* page k of a category ended the pagination of that category: the history
\* has no later page of it and no fetch of a later page is in progress
NoFetchBeyond(i) ==
    /\ \A j \in 1..Len(scLog) :
           scLog[j].cat = scLog[i].cat => scLog[j].page <= scLog[i].page
    /\ (scPc \in {"get", "page"} /\ scCat = scLog[i].cat) =>
           scPage <= scLog[i].page

\* the pages of a category before the one of entry i all yielded records
AllRowsBefore(i) ==
    \A j \in 1..Len(scLog) :
        (scLog[j].cat = scLog[i].cat /\ scLog[j].page < scLog[i].page) =>
            scLog[j].outcome = "rows"

\* C11: pagination stops on the first empty page. In every source's scrape
\* loop, once the parse of page k of a category has yielded zero records, no
\* page greater than k of that category is ever fetched, the pages before k
\* all yielded records, and scrape() returns the records of the pages
\* fetched (for craigslist after its dedupe_rows).
C11_StopsOnEmptyPage ==
    /\ \A i \in 1..Len(scLog) :
           scLog[i].outcome = "empty" => (NoFetchBeyond(i) /\ AllRowsBefore(i))
    /\ scPc \in {"returned", "done"} => scResult = RecordsOfPages

\* C11 witness: cargurus parsed 2 records on page 1 and none on page 2, and
\* returned the 2 records although MAX_PAGES allowed a third page.
C11_Witness ==
    /\ scSrc = "cargurus"
    /\ scPc = "returned"
    /\ Len(scLog) = 2
    /\ scLog[1].outcome = "rows" /\ Len(scLog[1].rows) = 2
    /\ scLog[2].outcome = "empty" /\ scLog[2].page = 2
    /\ scLog[2].page < scMaxPages
    /\ scResult = scLog[1].rows

\* the GET of the page in progress has ended in a terminal failure
TerminalFailure == scPc = "page" /\ scResp.status \in {"503", "raised"}

\* C12: exhausting the retry budget is a terminal page failure, not a
\* crash. No failed request is ever raised out of scrape(); when the GET of
\* a page of craigslist or cargurus ends with a 5xx response or an error
\* after the last retry, the next step records the page as failed, adds no
\* record and leaves the category; after a failed page of any source no
\* later page of the category is fetched, and scrape() returns the records
\* of the earlier pages.
C12_RetryExhaustionStops ==
    /\ [](scPc # "raised")
    /\ [][(TerminalFailure /\ scSrc # "carscom") =>
             /\ scLog' = Append(scLog, LogEntry(scCat, scPage, "failed", <<>>))
             /\ scRows' = scRows
             /\ scPc' = "return" \/ scCat' = scCat + 1]_vars
    /\ [](\A i \in 1..Len(scLog) : scLog[i].outcome = "failed" => NoFetchBeyond(i))
    /\ [](scPc \in {"returned", "done"} => scResult = RecordsOfPages)

\* C12 witness: cargurus parsed page 1, every GET of page 2 was answered
\* with 503 until the budget was exhausted, and scrape() returned the
\* records of page 1.
C12_Witness ==
    /\ scSrc = "cargurus"
    /\ scPc = "returned"
    /\ Len(scLog) = 2
    /\ scLog[1].outcome = "rows"
    /\ scLog[2].outcome = "failed"
    /\ scResp.status = "503"
    /\ scAttempts = RetryTotal + 1
    /\ scResult = scLog[1].rows
    /\ scResult # <<>>

\* C13 (as claimed): the fetcher issues at most 4 GET attempts for one page.
C13_FourAttempts == scAttempts <= 4

\* C13, what the code does: at most Retry.total + 1 attempts, the first
\* attempt and Retry.total retries
C13_AttemptsWithinRetryTotal == scAttempts <= RetryTotal + 1

\* the url cell of a persisted row
PersistedUrl(row) == row[7][2]

\* C17 (as claimed): the list a source persists never holds two records
\* with the same non-empty URL.
C17_PersistedUrlsUnique ==
    scPc = "done" =>
        \A i, j \in 1..Len(scPersisted.rows) :
            (i < j /\ KeyTruthy(PersistedUrl(scPersisted.rows[i]))) =>
                PersistedUrl(scPersisted.rows[i]) # PersistedUrl(scPersisted.rows[j])

\* C17, the sources for which it holds: craigslist and cars.com
C17_UniqueInCraigslistAndCarscom ==
    scSrc \in {"craigslist", "carscom"} => C17_PersistedUrlsUnique

\* C18 (as claimed): every record of parse_listings carries a first_seen
\* timestamp, and every source persists the columns source, title, price,
\* mileage, dealer, location, url, first_seen in that order.
C18_FirstSeenEverywhere ==
    /\ \A i \in 1..Len(scRows) :
           /\ "first_seen" \in DOMAIN scRows[i]
           /\ Len(scRows[i].first_seen) = 2
           /\ \A k \in 1..2 : scRows[i].first_seen[k] \in DecimalDigits
    /\ scPc = "done" =>
           scPersisted.header = <<"source", "title", "price", "mileage", "dealer",
                                  "location", "url", "first_seen">>

\* C18, the sources for which it holds: craigslist and cars.com
C18_FirstSeenInCraigslistAndCarscom ==
    scSrc \in {"craigslist", "carscom"} => C18_FirstSeenEverywhere

(***************************************************************************)
(* Claims about the files and the order of merge_csv_files (checked under  *)
(* SpecMerge).                                                             *)
(***************************************************************************)

\* C14 (as claimed): the merge never fails outright because an input file
\* is missing or unreadable: no exception of open() or of the read of a
\* file leaves merge_csv_files.
C14_MergeNeverFails == mergePc # "raised"

\* merged after the rows of a log have been read in order
RECURSIVE ReplayMerged(_, _)
ReplayMerged(log, m) ==
    IF log = <<>> THEN m
    ELSE ReplayMerged(Tail(log),
                      IF MergeSkipsRow(Head(log).row) THEN m
                      ELSE MergeRow(m, Head(log).row))

\* C15: the merge never reads its own output target. The output file is not
\* among the input paths and no row is read from it, also when it exists in
\* input_dir and matches the pattern; the paths of a run over the directory
\* that holds the output are those of the run without it, and the rows
\* returned are a function of the rows read from those paths, so that a
\* second run returns the rows of the first.
C15_NoSelfMerge ==
    /\ \A i \in 1..Len(paths) : paths[i] # OutputStem
    /\ \A i \in 1..Len(mergeLog) : mergeLog[i].path # OutputStem
    /\ InputPaths(dirListing \cup {OutputStem}) = InputPaths(dirListing \ {OutputStem})
    /\ paths = InputPaths(dirListing \ {OutputStem})
    /\ mergePc = "done" =>
           {mergeResult[i] : i \in 1..Len(mergeResult)}
               = {ReplayMerged(mergeLog, EmptyDict)[u] :
                      u \in DOMAIN ReplayMerged(mergeLog, EmptyDict)}

\* C15 witness: the directory holds a, b and the output file c; rows of a
\* and of b were merged and written.
C15_Witness ==
    /\ mergePc = "done"
    /\ OutputStem \in dirListing
    /\ \E i, j \in 1..Len(mergeLog) :
         mergeLog[i].path = <<"a">> /\ mergeLog[j].path = <<"b">>
    /\ mergeResult # <<>>
    /\ outputFile = mergeResult

\* the urls of the rows read, in the order of their first row
FirstEncounterOrder ==
    LET urls == [i \in 1..Len(mergeLog) |-> mergeLog[i].row.url]
    IN  SelectIdx(urls, 1,
                  {i \in 1..Len(urls) :
                      urls[i] # "" /\ \A j \in 1..(i - 1) : urls[j] # urls[i]})

\* C16: the merged rows come in the order in which each URL is first met,
\* the files being read in lexicographic order of path and the rows in file
\* order; a replacement of the retained record leaves the position of the
\* URL unchanged.
C16_FirstEncounterOrder ==
    /\ \A i, j \in 1..Len(mergeLog) :
           i < j => (mergeLog[i].path = mergeLog[j].path
                     \/ StrLess(mergeLog[i].path, mergeLog[j].path))
    /\ mergedOrder = FirstEncounterOrder
    /\ mergePc = "done" =>
           [i \in 1..Len(mergeResult) |-> mergeResult[i].url] = FirstEncounterOrder

\* C16 witness: file a holds u1 then u2, file b holds u1 with an earlier
\* first_seen; the row of b replaced that of a and u1 is still first.
C16_Witness ==
    /\ mergePc = "done"
    /\ Len(mergeLog) = 3
    /\ mergeLog[1].path = <<"a">> /\ mergeLog[1].row.url = "u1"
    /\ mergeLog[1].row.first_seen = <<"1", "1">>
    /\ mergeLog[2].path = <<"a">> /\ mergeLog[2].row.url = "u2"
    /\ mergeLog[3].path = <<"b">> /\ mergeLog[3].row.url = "u1"
    /\ mergeLog[3].row.first_seen = <<"1", "0">>
    /\ mergeLog[3].row.price # mergeLog[1].row.price
    /\ Len(mergeResult) = 2
    /\ mergeResult[1] = mergeLog[3].row
    /\ mergeResult[2].url = "u2"

\* C19: during a merge the first_seen of a URL is only ever lowered. In
\* every step a URL present in merged stays in it, and the record retained
\* for it changes only to the row just read, whose first_seen is non-empty
\* and chronologically strictly earlier than the retained one, or non-empty
\* when the retained one has none.
C19_FirstSeenOnlyLowered ==
    [][/\ DOMAIN merged \subseteq DOMAIN merged'
       /\ \A u \in DOMAIN merged :
            merged'[u] # merged[u] =>
                /\ Len(mergeLog') = Len(mergeLog) + 1
                /\ merged'[u] = mergeLog'[Len(mergeLog')].row
                /\ merged'[u].first_seen # <<>>
                /\ \/ merged[u].first_seen = <<>>
                   \/ TsValue(merged'[u].first_seen) < TsValue(merged[u].first_seen)]_vars

\* C19 witness: while file b is being read, u1 observed at 11 and then at
\* 10 is retained with 10, and a third observation at 10 with another price
\* has left the retained record unchanged.
C19_Witness ==
    /\ mergePc = "reading"
    /\ Len(mergeLog) = 3
    /\ mergeLog[1].row = [url |-> "u1", first_seen |-> <<"1", "1">>, price |-> "100"]
    /\ mergeLog[2].row = [url |-> "u1", first_seen |-> <<"1", "0">>, price |-> "100"]
    /\ mergeLog[3].row = [url |-> "u1", first_seen |-> <<"1", "0">>, price |-> "200"]
    /\ merged["u1"] = mergeLog[2].row

\* index in the log of the first row of a url
FirstIdxOf(u) ==
    CHOOSE i \in 1..Len(mergeLog) :
        /\ mergeLog[i].row.url = u
        /\ \A j \in 1..(i - 1) : mergeLog[j].row.url # u

\* C20: when no input row of a URL carries a first_seen, the merged row of
\* that URL is the first row of that URL in processing order, at every
\* point of the merge and in the list returned.
C20_FirstEncounteredWins ==
    \A u \in InputUrls :
        DatedRowsOf(u) = {} =>
            /\ merged[u] = mergeLog[FirstIdxOf(u)].row
            /\ mergePc = "done" =>
                   \E i \in ResultIdxOf(u) : mergeResult[i] = mergeLog[FirstIdxOf(u)].row

\* C20 witness: file a holds u1 without first_seen at price 100, file b
\* holds u1 without first_seen at price 200; the row of a was returned.
C20_Witness ==
    /\ mergePc = "done"
    /\ Len(mergeLog) = 2
    /\ mergeLog[1].path = <<"a">> /\ mergeLog[2].path = <<"b">>
    /\ mergeLog[1].row = [url |-> "u1", first_seen |-> <<>>, price |-> "100"]
    /\ mergeLog[2].row = [url |-> "u1", first_seen |-> <<>>, price |-> "200"]
    /\ mergeResult = <<mergeLog[1].row>>

(***************************************************************************)
(* The two fetchers of scrape_carscom.py on one page: fetch_html_requests  *)
(* and fetch_html_selenium are each called once for the page fePage.       *)
(***************************************************************************)
\* status codes of a response; "error" is a request that raised
FetchStatuses ==
    {"200", "403", "404", "429", "500", "502", "503", "504", "error"}

\* the pages asked for: the status, the listings of the markup, and whether
\* the text has a bot-check signal
FetchPages ==
    [status : FetchStatuses, items : {<<>>, <<ItemE>>, <<ItemA>>}, bot : BOOLEAN]

FetchInit ==
    /\ fePage \in FetchPages
    /\ feRequests = NoResp
    /\ feSelenium = NoResp
    /\ fePc = "fetch"
    /\ MergeIdle /\ DedupeIdle /\ UrlIdle /\ FilterIdle /\ ScrapeIdle /\ RunAllIdle

\* html = fetch_html_requests(session, url)
FetchRequestsCall ==
    /\ fePc = "fetch"
    /\ feRequests = NoResp
    /\ feRequests' = FetchHtmlRequests(fePage)
    /\ UNCHANGED <<fePage, feSelenium, fePc>>
    /\ UNCHANGED OthersThanFetch

\* html = fetch_html_selenium(driver, url)
FetchSeleniumCall ==
    /\ fePc = "fetch"
    /\ feSelenium = NoResp
    /\ feSelenium' = FetchHtmlSelenium(fePage)
    /\ UNCHANGED <<fePage, feRequests, fePc>>
    /\ UNCHANGED OthersThanFetch

FetchNext == FetchRequestsCall \/ FetchSeleniumCall

SpecFetch == FetchInit /\ [][FetchNext]_vars

(***************************************************************************)
(* main() of run_all.py: the loop over the sites with scrape_site, and the *)
(* combined frame.                                                         *)
(***************************************************************************)
\* the (name, module) list of the loop of main()
SiteNames == <<"craigslist", "carscom", "cargurus">>

\* what mod.scrape() of a site can do: raise, or return the rows of a run
\* over one page
ScrapeOutcomes(name, now) ==
    {[raised |-> TRUE, rows |-> <<>>]} \cup
    {[raised |-> FALSE,
      rows |-> IF name = "craigslist"
               THEN DedupeRows(name, ParsePage(name, l, now))
               ELSE ParsePage(name, l, now)] : l \in PageItemLists}

\* as_df(rows): the empty frame for no rows; else the url column through
\* canonical_url and a first_seen column when the rows have none
AsDf(rows, now) ==
    [i \in 1..Len(rows) |->
        [k \in DOMAIN rows[i] \cup {"first_seen"} |->
            IF k = "url" THEN RunAllCanonicalKey(rows[i].url)
            ELSE IF k \in DOMAIN rows[i] THEN rows[i][k]
            ELSE now]]

\* mutant: scrape_site without its try/except
ScrapeSiteUncaught(out, now) ==
    [raised |-> out.raised, df |-> AsDf(out.rows, now)]

\* scrape_site(site_name, fn): the frame of the rows of fn.scrape(), the
\* empty frame when it raised
ScrapeSite(out, now) ==
    [raised |-> FALSE, df |-> IF out.raised THEN <<>> ELSE AsDf(out.rows, now)]

\* pd.concat(dfs, ignore_index=True)
RECURSIVE Concat(_)
Concat(dfs) == IF dfs = <<>> THEN <<>> ELSE Head(dfs) \o Concat(Tail(dfs))

\* the order of sort_values(["price", "mileage"], na_position="last"): a
\* before b
RowBefore(a, b) ==
    LET less(x, y) == x # NoInt /\ (y = NoInt \/ Value(x) < Value(y))
    IN  \/ less(a.price, b.price)
        \/ a.price = b.price /\ less(a.mileage, b.mileage)

\* r put into a sorted frame behind the rows that are not after it
RECURSIVE InsertRow(_, _)
InsertRow(sorted, r) ==
    IF sorted = <<>> THEN <<r>>
    ELSE IF RowBefore(r, Head(sorted)) THEN <<r>> \o sorted
    ELSE <<Head(sorted)>> \o InsertRow(Tail(sorted), r)

\* combined.sort_values(["price", "mileage"], na_position="last"): the
\* sort over several columns keeps the order of equal rows
RECURSIVE SortValuesFrom(_, _)
SortValuesFrom(df, sorted) ==
    IF df = <<>> THEN sorted
    ELSE SortValuesFrom(Tail(df), InsertRow(sorted, Head(df)))

SortValues(df) == SortValuesFrom(df, <<>>)

\* lines 88-90: dedupe of the concatenated frames, apply_filters,
\* sort_values
Combined(dfs) == SortValues(ApplyFilters(RunAllDedupe(Concat(dfs))))

RunAllInit ==
    /\ raSites \in SUBSET {SiteNames[i] : i \in 1..Len(SiteNames)}
    /\ raIdx = 1
    /\ raDfs = <<>>
    /\ raLog = <<>>
    /\ raClock = 1
    /\ raCombined = <<>>
    /\ raPc = "sites"
    /\ MergeIdle /\ DedupeIdle /\ UrlIdle /\ FilterIdle /\ ScrapeIdle /\ FetchIdle

\* line 77: "if name not in args.sites: continue"
RunAllSkipSite ==
    /\ raPc = "sites"
    /\ raIdx <= Len(SiteNames)
    /\ SiteNames[raIdx] \notin raSites
    /\ raIdx' = raIdx + 1
    /\ UNCHANGED <<raSites, raDfs, raLog, raClock, raCombined, raPc>>
    /\ UNCHANGED OthersThanRunAll

\* lines 78-84: df = scrape_site(name, mod); a non-empty frame is written
\* and appended to dfs
RunAllScrapeSite ==
    /\ raPc = "sites"
    /\ raIdx <= Len(SiteNames)
    /\ SiteNames[raIdx] \in raSites
    /\ \E out \in ScrapeOutcomes(SiteNames[raIdx], IsoSeconds(raClock)) :
        LET res == ScrapeSite(out, IsoSeconds(raClock))
        IN  IF res.raised
            THEN /\ raPc' = "raised"
                 /\ UNCHANGED <<raIdx, raDfs, raLog, raClock>>
            ELSE /\ raDfs' = IF res.df # <<>> THEN Append(raDfs, res.df) ELSE raDfs
                 /\ raLog' = Append(raLog, [name |-> SiteNames[raIdx],
                                            raised |-> out.raised,
                                            df |-> res.df])
                 /\ raIdx' = raIdx + 1
                 /\ raClock' = raClock + 1
                 /\ UNCHANGED raPc
    /\ UNCHANGED <<raSites, raCombined>>
    /\ UNCHANGED OthersThanRunAll

\* lines 86-101: the combined frame is written when a site gave rows
RunAllCombine ==
    /\ raPc = "sites"
    /\ raIdx > Len(SiteNames)
    /\ IF raDfs # <<>>
       THEN /\ raCombined' = Combined(raDfs)
            /\ raPc' = "done"
       ELSE /\ raPc' = "nodata"
            /\ UNCHANGED raCombined
    /\ UNCHANGED <<raSites, raIdx, raDfs, raLog, raClock>>
    /\ UNCHANGED OthersThanRunAll

RunAllNext == RunAllSkipSite \/ RunAllScrapeSite \/ RunAllCombine

SpecRunAll == RunAllInit /\ [][RunAllNext]_vars

\* a run of one of the programs with a scrape loop or a site loop: a
\* scraper's main(), or run_all's main()
ProgramInit == ScrapeInit \/ RunAllInit

ProgramNext == ScrapeNext \/ RunAllNext

SpecPrograms == ProgramInit /\ [][ProgramNext]_vars

\* the scraper runs under the scheduling of the code: one thread, every GET
\* bounded by its timeout and every sleep bounded, so a step that can be
\* taken is taken
ScrapeFairInit == ScrapeStart(FairMaxPages)

SpecScrapeFair == ScrapeFairInit /\ [][ScrapeNext]_vars /\ WF_vars(ScrapeNext)

(***************************************************************************)
(* Claims about failures, the browser driver, the fetchers and the order   *)
(* of the pages and of the pipeline (checked under SpecPrograms,           *)
(* SpecScrape, SpecScrapeFair and SpecFetch).                              *)
(***************************************************************************)

\* the page of entry i stopped its category by a failure or an empty page
StoppedByFailure(i) == scLog[i].outcome \in {"failed", "empty"}

\* the sites of SiteNames that are selected, in the order of the loop
SelectedSites == SelectSeq(SiteNames, LAMBDA n : n \in raSites)

\* the non-empty frames of the history of run_all, in order
RECURSIVE FramesOf(_)
FramesOf(log) ==
    IF log = <<>> THEN <<>>
    ELSE (IF Head(log).df # <<>> THEN <<Head(log).df>> ELSE <<>>)
         \o FramesOf(Tail(log))

\* C21: page-level failures are isolated. In scrape_craigslist.scrape a
\* page of a category that failed or was empty is followed by page 1 of the
\* next configured category; in run_all no exception of a site's scrape()
\* leaves main(), a site whose scrape() raised has the empty frame, every
\* selected site is handled in order, and the combined output is made of the
\* frames of all the sites that returned rows.
C21_FailuresIsolated ==
    /\ scSrc = "craigslist" =>
           \A i \in 1..Len(scLog) :
               (StoppedByFailure(i) /\ scLog[i].cat < Len(Categories(scSrc))) =>
                   IF i < Len(scLog)
                   THEN scLog[i + 1].cat = scLog[i].cat + 1 /\ scLog[i + 1].page = 1
                   ELSE /\ scPc \in {"get", "page", "crashed"}
                        /\ scCat = scLog[i].cat + 1
                        /\ scPage = 1
    /\ raPc # "raised"
    /\ \A i \in 1..Len(raLog) :
           /\ i <= Len(SelectedSites) /\ raLog[i].name = SelectedSites[i]
           /\ raLog[i].raised => raLog[i].df = <<>>
    /\ raPc \in {"done", "nodata"} =>
           /\ Len(raLog) = Len(SelectedSites)
           /\ raDfs = FramesOf(raLog)
           /\ raCombined = Combined(FramesOf(raLog))

\* C21 witness: run_all with the three sites selected; scrape() of
\* craigslist raised, cars.com and cargurus returned rows, and the combined
\* file has rows of both.
C21_Witness ==
    /\ raPc = "done"
    /\ Len(raLog) = 3
    /\ raLog[1].raised /\ raLog[1].df = <<>>
    /\ ~raLog[2].raised /\ raLog[2].df # <<>>
    /\ ~raLog[3].raised /\ raLog[3].df # <<>>
    /\ \E j, k \in 1..Len(raCombined) :
           raCombined[j].source = "cars.com" /\ raCombined[k].source = "cargurus"

\* a scraper's run is over: scrape() returned or an exception left it
ScrapeExited == scPc \in {"returned", "done", "raised", "crashed"}

\* C22 (as claimed): scrape_carscom.scrape creates at most one driver per
\* run, and whenever a driver was created it has been quit when scrape() has
\* exited, by a return or by an exception out of the page loop.
C22_DriverReleased ==
    /\ scDriversMade <= 1
    /\ (ScrapeExited /\ scDriversMade > 0) => scDriverQuit

\* C22, what the code does: at most one driver, quit when scrape() returns
C22_DriverReleasedOnReturn ==
    /\ scDriversMade <= 1
    /\ scDriver <=> scDriversMade = 1
    /\ (scPc \in {"returned", "done"} /\ scDriversMade > 0) => scDriverQuit

\* the pages of category c in the history, in order
PagesOf(c) == SelectSeq(scLog, LAMBDA e : e.cat = c)

\* C23: pagination of one (source, category) is strictly sequential. The
\* pages of a category are handled in the order 1, 2, 3, ...; the page being
\* fetched is the one after the pages handled; every page before another
\* page of the category yielded records; and after a page that stopped the
\* category (a failure, no records, or the page cap) no further page of it
\* is fetched.
C23_SequentialPagination ==
    /\ \A c \in 1..Len(Categories(scSrc)) :
           /\ \A k \in 1..Len(PagesOf(c)) :
                  /\ PagesOf(c)[k].page = k
                  /\ k < Len(PagesOf(c)) => PagesOf(c)[k].outcome = "rows"
           /\ (scPc \in {"get", "page"} /\ scCat = c) =>
                  /\ scPage = Len(PagesOf(c)) + 1
                  /\ \A k \in 1..Len(PagesOf(c)) : PagesOf(c)[k].outcome = "rows"
    /\ \A i \in 1..Len(scLog) :
           (StoppedByFailure(i) \/ scLog[i].page = scMaxPages) => NoFetchBeyond(i)

\* C23 witness: cars.com is fetching page 3 after pages 1 and 2 yielded
\* records.
C23_Witness ==
    /\ scSrc = "carscom"
    /\ scPc = "get"
    /\ scPage = 3
    /\ Len(scLog) = 2
    /\ scLog[1].page = 1 /\ scLog[1].outcome = "rows"
    /\ scLog[2].page = 2 /\ scLog[2].outcome = "rows"

\* the GET of the page in progress was answered with a 4xx status other
\* than 429
PermanentClientError == scPc = "page" /\ scResp.status = "404"

\* C24 (as claimed): a page GET answered with a 4xx status other than 429
\* is attempted exactly once, and the next step reports the page as failed
\* and stops the pagination of its category.
C24_ClientErrorTerminal ==
    /\ []((PermanentClientError /\ scRetries = RetryTotal) => scAttempts = 1)
    /\ [][PermanentClientError =>
             /\ scLog' = Append(scLog, LogEntry(scCat, scPage, "failed", <<>>))
             /\ scRows' = scRows
             /\ scPc' = "return" \/ scCat' = scCat + 1]_vars

\* C24, where it holds: craigslist, cargurus, and cars.com without
\* AUTO_SELENIUM_ON_FAIL and USE_SELENIUM
C24_TerminalWithoutFallback ==
    /\ []((PermanentClientError /\ scRetries = RetryTotal) => scAttempts = 1)
    /\ [][(PermanentClientError /\ ~scAutoSel /\ ~scUseSel) =>
             /\ scLog' = Append(scLog, LogEntry(scCat, scPage, "failed", <<>>))
             /\ scRows' = scRows
             /\ scPc' = "return" \/ scCat' = scCat + 1]_vars

\* the page loop of cars.com has ended on a page without records: the last
\* page of the history was declared terminal
DeclaredTerminal ==
    /\ scSrc = "carscom"
    /\ scPc \in {"return", "returned", "done"}
    /\ Len(scLog) > 0
    /\ scLog[Len(scLog)].outcome # "rows"

\* the requests path gave no content for the page, or content that looks
\* like a bot check
RequestsPathFailed ==
    FetchHtmlRequests(scResp) = NoHtml \/ LooksLikeBotCheck(FetchHtmlRequests(scResp))

\* the browser fallback was attempted for the page: the page was fetched
\* through the driver, or there is no driver and make_driver() was tried
FallbackAttempted ==
    IF scDriver THEN scFetch.browser >= 1 ELSE scFetch.tries >= 1

\* C25: in scrape_carscom.scrape with AUTO_SELENIUM_ON_FAIL enabled, a page
\* for which the requests path returned no content, or bot-check content
\* without records, is declared terminal only after the browser fallback was
\* attempted for that page.
C25_FallbackBeforeTerminal ==
    (DeclaredTerminal /\ scAutoSel /\ ~scUseSel /\ RequestsPathFailed) =>
        FallbackAttempted

\* C25 witness: the GET of page 1 ended with a 503 after the last retry,
\* make_driver() succeeded, the browser fetch gave no content either, and
\* the page ended the run.
C25_Witness ==
    /\ DeclaredTerminal /\ scAutoSel /\ ~scUseSel
    /\ scResp.status = "503"
    /\ scLog[Len(scLog)].outcome = "failed"
    /\ scDriver
    /\ scFetch = [gets |-> 1, browser |-> 1, tries |-> 1]

\* C26 (as claimed): for the same page, fetch_html_requests returns content
\* if and only if fetch_html_selenium does.
C26_SameSuccessCriteria ==
    (feRequests # NoResp /\ feSelenium # NoResp) =>
        (feRequests # NoHtml <=> feSelenium # NoHtml)

\* C26, what the code does: fetch_html_requests returns content exactly for
\* a response of status 200, fetch_html_selenium exactly for a page that
\* loaded and has a vehicle card
C26_CriteriaOfTheCode ==
    /\ feRequests # NoResp => (feRequests # NoHtml <=> fePage.status = "200")
    /\ feSelenium # NoResp =>
           (feSelenium # NoHtml <=>
                (fePage.status # "error" /\ fePage.items # <<>>))

\* the record has a url or a title
ValidRecord(r) == KeyTruthy(r.url) \/ StrTruthy(TitleOrEmpty(r.title))

\* C27 (as claimed): no record returned by parse_listings of any source has
\* both its url and its title missing or empty.
C27_NoInvalidRecords ==
    \A i \in 1..Len(scLog) :
        \A k \in 1..Len(scLog[i].rows) : ValidRecord(scLog[i].rows[k])

\* C27, the sources for which it holds: craigslist and cars.com
C27_ValidInCraigslistAndCarscom ==
    scSrc \in {"craigslist", "carscom"} => C27_NoInvalidRecords

\* C28: every scrape() run terminates and respects the page cap. Under the
\* scheduling of the code scrape() eventually returns (or is left by an
\* exception of parse_listings); at most MAX_PAGES pages of a (source,
\* category) are handled and no page beyond MAX_PAGES is fetched, so at most
\* len(CRAIG_CATEGORIES) x MAX_PAGES pages for craigslist and MAX_PAGES for
\* cars.com and cargurus.
C28_TerminatesWithinPageCap ==
    /\ <>(scPc = "returned" \/ scPc = "crashed")
    /\ [](\A c \in 1..Len(Categories(scSrc)) : Len(PagesOf(c)) <= scMaxPages)
    /\ [](Len(scLog) <= Len(Categories(scSrc)) * scMaxPages)
    /\ [](scPc \in {"get", "page", "crashed"} => scPage \in 1..scMaxPages)

\* C28 witness: craigslist has returned after MAX_PAGES pages of each of
\* its two categories, all of them with records.
C28_Witness ==
    /\ scSrc = "craigslist"
    /\ scPc = "returned"
    /\ Len(scLog) = 2 * scMaxPages
    /\ \A i \in 1..Len(scLog) : scLog[i].outcome = "rows"

\* row i of rows is the first of its url (rows without url are all first)
FirstOccurrence(rows, i) ==
    ~KeyTruthy(rows[i].url) \/ \A j \in 1..(i - 1) : rows[j].url # rows[i].url

\* the config filter of the main() of a scraper
SourceKeeps(src, r) ==
    IF src = "craigslist" THEN CraigslistKeeps(r) ELSE CarscomKeeps(r)

\* the records run_all has concatenated
RunAllRecords == Concat(FramesOf(raLog))

\* the indices of the records of run_all that are the first of their url
\* value and within the ceilings
RunAllKeptIdx ==
    {i \in 1..Len(RunAllRecords) :
        /\ \A j \in 1..(i - 1) : RunAllRecords[j].url # RunAllRecords[i].url
        /\ PriceOk(RunAllRecords[i]) /\ MileageOk(RunAllRecords[i])}

\* C29: the pipeline deduplicates before it filters. In main() of
\* craigslist and cars.com what is persisted is the records of scrape() that
\* are the first of their URL and pass the filter, in order; in run_all the
\* combined output holds exactly the records that are the first of their URL
\* and within the ceilings. A URL whose first occurrence fails the filter is
\* absent from the output also when a later occurrence passes.
C29_DedupeBeforeFilter ==
    /\ (scPc = "done" /\ scSrc \in {"craigslist", "carscom"}) =>
           /\ scPersisted =
                  WriteCsv(Fieldnames(scSrc),
                           SelectIdx(scResult, 1,
                               {i \in 1..Len(scResult) :
                                   /\ FirstOccurrence(scResult, i)
                                   /\ SourceKeeps(scSrc, scResult[i])}))
           /\ \A i \in 1..Len(scResult) :
                  (/\ KeyTruthy(scResult[i].url)
                   /\ FirstOccurrence(scResult, i)
                   /\ ~SourceKeeps(scSrc, scResult[i])) =>
                      \A k \in 1..Len(scPersisted.rows) :
                          PersistedUrl(scPersisted.rows[k]) # scResult[i].url
    /\ raPc = "done" =>
           /\ {raCombined[k] : k \in 1..Len(raCombined)} =
                  {RunAllRecords[i] : i \in RunAllKeptIdx}
           /\ Len(raCombined) = Cardinality(RunAllKeptIdx)
           /\ \A i \in 1..Len(RunAllRecords) :
                  (/\ \A j \in 1..(i - 1) : RunAllRecords[j].url # RunAllRecords[i].url
                   /\ ~(PriceOk(RunAllRecords[i]) /\ MileageOk(RunAllRecords[i]))) =>
                      \A k \in 1..Len(raCombined) :
                          raCombined[k].url # RunAllRecords[i].url

\* C29 witness: cars.com returned two records of one URL, the first above
\* the price ceiling and the second passing the filter, and main() persisted
\* no row of that URL.
C29_Witness ==
    /\ scSrc = "carscom"
    /\ scPc = "done"
    /\ \E i, j \in 1..Len(scResult) :
           /\ i < j
           /\ KeyTruthy(scResult[i].url)
           /\ scResult[i].url = scResult[j].url
           /\ FirstOccurrence(scResult, i)
           /\ ~CarscomKeeps(scResult[i])
           /\ CarscomKeeps(scResult[j])
           /\ \A k \in 1..Len(scPersisted.rows) :
                  PersistedUrl(scPersisted.rows[k]) # scResult[i].url

\* C30: the cars.com fallback chain is bounded per page. For every page
\* handled, with USE_SELENIUM off there is at most one call of the requests
\* fetcher and at most two browser fetches; with USE_SELENIUM on there is no
\* requests fetch and at most three browser fetches; with USE_SELENIUM and
\* AUTO_SELENIUM_ON_FAIL both off make_driver() is never called and no
\* driver exists.
C30_FallbackChainBounded ==
    scSrc = "carscom" =>
        /\ ~scUseSel => (scFetch.gets <= 1 /\ scFetch.browser <= 2)
        /\ scUseSel => (scFetch.gets = 0 /\ scFetch.browser <= 3)
        /\ scUseSel => scAttempts = 0
        /\ (~scUseSel /\ ~scAutoSel) =>
               /\ scFetch.tries = 0 /\ scFetch.browser = 0
               /\ scDriversMade = 0 /\ ~scDriver

\* C30 witness: with USE_SELENIUM off, a page whose GET failed was fetched
\* twice through the browser (the first page source looked like a bot
\* check and gave no record).
C30_Witness ==
    /\ scSrc = "carscom"
    /\ ~scUseSel
    /\ scFetch.gets = 1
    /\ scFetch.browser = 2
    /\ Len(scLog) > 0

====
